---- MODULE Spec2Model ----
(***************************************************************************)
(* A model of HyperboloidNavigation (dev/raytracing/                       *)
(* hyperboloid_navigation.py): the key-motion integrator driven by Tk key  *)
(* events and the self-rescheduling do_movement callback, and the three    *)
(* mouse gestures.                                                         *)
(*                                                                         *)
(* Time is counted in milliseconds.  Angles and hyperbolic distances that  *)
(* are linear in time or in pixels are counted in units of 1/10000, so     *)
(* that a velocity of 0.4 per second is 4 units per millisecond and the    *)
(* mouse factor 0.01 per pixel is 100 units per pixel.                     *)
(*                                                                         *)
(* O(1,3) matrices are kept as words over one-parameter subgroups          *)
(* (rotations about an axis, translations along a direction), reduced by   *)
(* the identities g(a) g(b) = g(a+b) and g(0) = 1.                         *)
(***************************************************************************)
EXTENDS Integers, Sequences, FiniteSets, TLC

\* ------------------------------------------------------------------ bounds

\* Wall-clock horizon of a run, in milliseconds.
MaxTime == 11

\* Number of key events (presses and releases) delivered in a run.
MaxKeyEvents == 3

\* How late, in milliseconds, the timer queue may run a due callback.
MaxLate == 0

\* Number of mouse events (presses, releases, drag samples) in a run.
MaxMouseEvents == 5

\* Largest amount, in absolute value, a key binding is called with directly.
MaxAmount == 2

\* Number of mouse events in a run in which the host widget's two methods
\* are called between key and mouse events.
MaxHostMouseEvents == 2

\* Largest number of factors polynomial.factor() returns.
MaxFactors == 2

\* Mouse events in the runs that mix drags with ticks and host calls.
MaxAnchorMouseEvents == 3

\* Milliseconds those runs last.
MaxAnchorTime == 2

\* Milliseconds a run lasts in which one key is evicted and pressed again.
MaxRepressTime == 13

\* ------------------------------------------------- constants of the program

\* self.refresh_delay, milliseconds.
refresh_delay == 10

\* The delay of the tick armed by a key press: self.after(1, ...).
KeyPressDelay == 1

\* The release debounce window: current_time - t > 0.005 (seconds).
Debounce == 5

\* The mouse factor 0.01 per pixel, in units of 1/10000.
MouseFactor == 100

\* 'translationVelocity' and 'rotationVelocity' default to 0.4 per second,
\* that is 4 units per millisecond.
DefaultVelocity == 4

\* The search gives up when k reaches this.
MaxK == 100

\* The search gives up when extra_prec reaches this.
MaxExtraPrec == 5

\* The precision of a double, in bits.
DoublePrecision == 53

\* The value None of a mouse position.
None == << >>

\* ------------------------------------------------ Lorentz operator library

\* A direction: a literal unit vector ("unit"), the normalised drag vector
\* v / |v| ("drag"), or the normalised unprojected pixel ("pick", where v
\* holds the centred pixel scaled by twice the viewport width and the sign
\* of the depth component -0.5 / tan(fov / 360 * pi)).
Direction(scale, v) == [scale |-> scale, v |-> v]

\* A generator: a rotation about, or a translation along, an axis by an
\* amount.  The amount is n units ("lin"), 0.01 * sqrt(n) ("len") or
\* atanh(n / DepthScale) ("atanh").
Generator(kind, axis, unit, n) ==
    [kind |-> kind, axis |-> axis, unit |-> unit, n |-> n]

\* matrix([[1,0,0,0],[0,1,0,0],[0,0,1,0],[0,0,0,1]])
Identity == << >>

\* The value None of a field that holds a matrix or a view state, and the
\* value of a matrix attribute not assigned yet.
NoMatrix == <<Generator("None", Direction("None", <<0, 0, 0>>), "None", 0)>>

\* Two generators of the same one-parameter subgroup whose amounts add up
\* in closed form: linear amounts add, and atanh(d) + atanh(-d) = 0.
Mergeable(g, h) ==
    /\ g.kind = h.kind
    /\ g.axis = h.axis
    /\ g.unit = h.unit
    /\ \/ g.unit = "lin"
       \/ g.unit = "atanh" /\ g.n + h.n = 0

\* The word w times the generator g, reduced.
Push(w, g) ==
    IF g.n = 0 THEN w
    ELSE IF w # << >> /\ Mergeable(w[Len(w)], g)
         THEN IF w[Len(w)].n + g.n = 0
              THEN SubSeq(w, 1, Len(w) - 1)
              ELSE [w EXCEPT ![Len(w)].n = w[Len(w)].n + g.n]
         ELSE Append(w, g)

RECURSIVE Mul(_, _)
\* The matrix product a * b.
Mul(a, b) == IF b = << >> THEN a ELSE Mul(Push(a, Head(b)), Tail(b))

O13_x_rotation(angle) ==
    Push(Identity, Generator("rot", Direction("unit", <<1, 0, 0>>), "lin", angle))

O13_y_rotation(angle) ==
    Push(Identity, Generator("rot", Direction("unit", <<0, 1, 0>>), "lin", angle))

O13_z_rotation(angle) ==
    Push(Identity, Generator("rot", Direction("unit", <<0, 0, 1>>), "lin", angle))

\* unit_3_vector_and_distance_to_O13_hyperbolic_translation(v, d), with the
\* distance d given as a pair <<unit, n>>.
unit_3_vector_and_distance_to_O13_hyperbolic_translation(dir, dist) ==
    Push(Identity, Generator("trans", dir, dist[1], dist[2]))

\* raytracing_data.initial_view_state()
initial_view_state == Identity

\* raytracing_data.update_view_state(view_state, m): the state moved by m.
update_view_state(state, m) == Mul(state, m)

\* ------------------------------------------------------- the key bindings

TranslationKeys == {"a", "d", "c", "e", "w", "s"}

RotationKeys == {"Left", "Right", "Up", "Down", "x", "z"}

\* The keys of _key_movement_bindings.
key_movement_bindings == TranslationKeys \cup RotationKeys

\* KeyMovement with the sign of the rotation amount of 'Up' lost.
KeyMovementUpAsDown(k, rot_amount, trans_amount) ==
    CASE k = "a" -> unit_3_vector_and_distance_to_O13_hyperbolic_translation(
                        Direction("unit", <<-1, 0, 0>>), <<"lin", trans_amount>>)
      [] k = "d" -> unit_3_vector_and_distance_to_O13_hyperbolic_translation(
                        Direction("unit", <<1, 0, 0>>), <<"lin", trans_amount>>)
      [] k = "c" -> unit_3_vector_and_distance_to_O13_hyperbolic_translation(
                        Direction("unit", <<0, -1, 0>>), <<"lin", trans_amount>>)
      [] k = "e" -> unit_3_vector_and_distance_to_O13_hyperbolic_translation(
                        Direction("unit", <<0, 1, 0>>), <<"lin", trans_amount>>)
      [] k = "w" -> unit_3_vector_and_distance_to_O13_hyperbolic_translation(
                        Direction("unit", <<0, 0, -1>>), <<"lin", trans_amount>>)
      [] k = "s" -> unit_3_vector_and_distance_to_O13_hyperbolic_translation(
                        Direction("unit", <<0, 0, 1>>), <<"lin", trans_amount>>)
      [] k = "Left" -> O13_y_rotation(-rot_amount)
      [] k = "Right" -> O13_y_rotation(rot_amount)
      [] k = "Up" -> O13_x_rotation(rot_amount)
      [] k = "Down" -> O13_x_rotation(rot_amount)
      [] k = "x" -> O13_z_rotation(-rot_amount)
      [] k = "z" -> O13_z_rotation(rot_amount)

\* _key_movement_bindings[k](rot_amount, trans_amount)
KeyMovement(k, rot_amount, trans_amount) ==
    CASE k = "a" -> unit_3_vector_and_distance_to_O13_hyperbolic_translation(
                        Direction("unit", <<-1, 0, 0>>), <<"lin", trans_amount>>)
      [] k = "d" -> unit_3_vector_and_distance_to_O13_hyperbolic_translation(
                        Direction("unit", <<1, 0, 0>>), <<"lin", trans_amount>>)
      [] k = "c" -> unit_3_vector_and_distance_to_O13_hyperbolic_translation(
                        Direction("unit", <<0, -1, 0>>), <<"lin", trans_amount>>)
      [] k = "e" -> unit_3_vector_and_distance_to_O13_hyperbolic_translation(
                        Direction("unit", <<0, 1, 0>>), <<"lin", trans_amount>>)
      [] k = "w" -> unit_3_vector_and_distance_to_O13_hyperbolic_translation(
                        Direction("unit", <<0, 0, -1>>), <<"lin", trans_amount>>)
      [] k = "s" -> unit_3_vector_and_distance_to_O13_hyperbolic_translation(
                        Direction("unit", <<0, 0, 1>>), <<"lin", trans_amount>>)
      [] k = "Left" -> O13_y_rotation(-rot_amount)
      [] k = "Right" -> O13_y_rotation(rot_amount)
      [] k = "Up" -> O13_x_rotation(-rot_amount)
      [] k = "Down" -> O13_x_rotation(rot_amount)
      [] k = "x" -> O13_z_rotation(-rot_amount)
      [] k = "z" -> O13_z_rotation(rot_amount)

\* The movement keys the modelled keyboard delivers: a translation key and a
\* rotation key.
MovementKeys == {"a", "Left"}

\* ------------------------------------------- the set current_keys_pressed
\* A Python set is an open-addressing hash table; its iteration order is the
\* order of the slots.  The table of a set of fewer than five entries has
\* eight slots and is probed at i, then at (5 i + 1 + perturb) mod 8 with
\* perturb the hash shifted right by five bits at every step.  A removed key
\* leaves a dummy entry, which a later insertion probing through it reuses.

SetSlots == 8

PerturbShift == 32

Unused == "<unused>"

Dummy == "<dummy>"

RECURSIVE Slot(_, _)
\* The j-th slot probed for a key of hash h.
Slot(h, j) ==
    IF j = 0 THEN h % SetSlots
    ELSE (5 * Slot(h, j - 1) + 1 + (h \div (PerturbShift ^ j))) % SetSlots

\* set()
EmptySet == [i \in 0 .. SetSlots - 1 |-> Unused]

\* k in s
SetContains(table, k) == \E i \in DOMAIN table : table[i] = k

RECURSIVE SetAddProbe(_, _, _, _, _)
SetAddProbe(table, k, h, j, freeslot) ==
    LET i == Slot(h, j) IN
    IF table[i] = Unused
    THEN [table EXCEPT ![IF freeslot = -1 THEN i ELSE freeslot] = k]
    ELSE IF table[i] = k THEN table
    ELSE SetAddProbe(table, k, h, j + 1,
                     IF table[i] = Dummy THEN i ELSE freeslot)

\* s.add(k), for a key of hash h
SetAdd(table, k, h) == SetAddProbe(table, k, h, 0, -1)

\* s.remove(k)
SetRemove(table, k) ==
    [i \in DOMAIN table |-> IF table[i] = k THEN Dummy ELSE table[i]]

RECURSIVE SetIterFrom(_, _)
SetIterFrom(table, i) ==
    IF i = SetSlots THEN << >>
    ELSE IF table[i] \in {Unused, Dummy} THEN SetIterFrom(table, i + 1)
    ELSE <<table[i]>> \o SetIterFrom(table, i + 1)

\* The keys in the order "for k in s" visits them.
SetIter(table) == SetIterFrom(table, 0)

\* The keys of the set, as a set.
SetKeys(table) == {table[i] : i \in DOMAIN table} \ {Unused, Dummy}

\* The string hashes of a process.  The hash of a str is salted per process,
\* so any assignment of hashes to the keys can occur; two are modelled, one
\* in which the two movement keys start at different slots and one in which
\* they start at the same slot.
StringHashes == {[a |-> 1, Left |-> 2], [a |-> 1, Left |-> 9]}

\* ------------------------------------------------------------------ state

VARIABLES
    now,                        \* time.time(), in milliseconds
    key_hash,                   \* hash(k) of each movement key in this process
    navigation_dict,            \* the two velocities
    view_state,
    mouse_pos_when_pressed,
    view_state_when_pressed,
    last_mouse_pos,
    orbit_translation,
    orbit_inv_translation,
    orbit_rotation,
    current_keys_pressed,
    time_key_release_received,
    last_time,
    pending,                    \* due times of the do_movement callbacks armed with after()
    handler,                    \* the handler that ran last
    calls,                      \* the calls that handler made to its collaborators
    key_events,                 \* number of key events delivered so far
    mouse_events,               \* number of mouse events delivered so far
    gesture,                    \* the last button press, as the environment saw it
    view,                       \* self.view, the view mode the 'v' key cycles
    binding_call,               \* the last direct call of a key binding
    held_since,                 \* history: when each held key joined the held set
    integrated,                 \* history: the amounts each held key contributed since
    repeats,                    \* history: the release/press pairs each held key took since
    evicted_at,                 \* history: when each key was last evicted
    last_key_event,             \* history: the last event of each key, press or release
    search,                     \* the frame of field_containing_real_and_imaginary_part_of_number_field
    menu                        \* an EditMenu: its actions and the states of its entries

vars == <<now, key_hash, navigation_dict, view_state, mouse_pos_when_pressed,
          view_state_when_pressed, last_mouse_pos, orbit_translation,
          orbit_inv_translation, orbit_rotation, current_keys_pressed,
          time_key_release_received, last_time, pending, handler, calls,
          key_events, mouse_events, gesture, view, binding_call, held_since,
          integrated, repeats, evicted_at, last_key_event, search, menu>>

keyVars == <<current_keys_pressed, time_key_release_received, last_time>>

mouseVars == <<mouse_pos_when_pressed, view_state_when_pressed, last_mouse_pos,
               orbit_translation, orbit_inv_translation, orbit_rotation>>

\* The history of the held keys, kept beside the program's own state.
historyVars == <<held_since, integrated, repeats, evicted_at>>

\* The state of the modules other than the navigation.
moduleVars == <<search, menu>>

\* The velocities a run is configured with: the defaults, and a setting in
\* which the two differ.
Velocities ==
    {[rotationVelocity |-> DefaultVelocity, translationVelocity |-> DefaultVelocity],
     [rotationVelocity |-> DefaultVelocity + 2, translationVelocity |-> DefaultVelocity]}

\* A call to a collaborator: update_view_state(state, m),
\* redraw_if_initialized() or after(ms, self.do_movement).
Call(f, state, m, ms) == [f |-> f, state |-> state, m |-> m, ms |-> ms]

UpdateCall(state, m) == Call("update_view_state", state, m, 0)

RedrawCall == Call("redraw_if_initialized", Identity, Identity, 0)

AfterCall(ms) == Call("after", Identity, Identity, ms)

\* print(self.view_state)
PrintCall(state) == Call("print", state, Identity, 0)

\* self.raytracing_data.update_view_state(state), with no matrix.
FixCall(state) == Call("update_view_state(state)", state, Identity, 0)

\* The number of view modes: self.view = (self.view + 1) % 3.
ViewModes == 3

\* A call _key_movement_bindings[key](rot_amount, trans_amount) and the
\* matrix it returned.
BindingCall(key, rot_amount, trans_amount, result) ==
    [key |-> key, rot_amount |-> rot_amount, trans_amount |-> trans_amount,
     result |-> result]

\* No binding called yet.
NoBindingCall == BindingCall("", 0, 0, Identity)

\* No button press seen yet.
NoGesture ==
    [mode |-> "none", pos |-> None, state |-> Identity, drags |-> "none",
     down |-> FALSE, samples |-> << >>, between |-> {}]

\* The record of the gesture after the handler h assigned the view state:
\* while the button is down, between collects the handlers that changed it
\* since the press.
Interleaved(h) ==
    IF ~gesture.down \/ view_state' = view_state THEN gesture
    ELSE [gesture EXCEPT !.between = @ \cup {h}]

\* The frame of the search on reaching its loop: k and extra_prec are 0 and
\* the intervals have the precision of a double.  attempts counts the calls
\* of _solve_two_equations; solve_k and solve_prec are the k and the
\* precision of the intervals of the last call, outcome what it did;
\* find_zeros and find_factor are the argument and the result of the last
\* call of _find_unique_good_factor.
SearchEntered ==
    [pc |-> "loop", k |-> 0, extra_prec |-> 0, prec |-> DoublePrecision,
     result |-> "", attempts |-> 0, solve_k |-> 0, solve_prec |-> 0,
     outcome |-> "", find_zeros |-> << >>, find_factor |-> 0]

\* EditMenu.entries
entries == <<"Cut", "Copy", "Paste", "Delete">>

EntryLabels == {entries[i] : i \in DOMAIN entries}

\* EditMenu.__init__: four entries added disabled, no actions.  previous
\* is history: the states of the entries before the last configure.
EditMenuInit ==
    [actions |-> [key \in {} |-> "None"],
     state |-> [entry \in EntryLabels |-> "disabled"],
     previous |-> [entry \in EntryLabels |-> "disabled"]]

\* HyperboloidNavigation.__init__, the search entered and an EditMenu
\* constructed.
Init ==
    /\ now = 0
    /\ key_hash \in StringHashes
    /\ navigation_dict \in Velocities
    /\ view_state = initial_view_state
    /\ mouse_pos_when_pressed = None
    /\ view_state_when_pressed = NoMatrix
    /\ last_mouse_pos = None
    /\ orbit_translation = NoMatrix
    /\ orbit_inv_translation = NoMatrix
    /\ orbit_rotation = NoMatrix
    /\ current_keys_pressed = EmptySet
    /\ time_key_release_received = [k \in {} |-> 0]
    /\ last_time = [k \in {} |-> 0]
    /\ pending = << >>
    /\ handler = "__init__"
    /\ calls = << >>
    /\ key_events = 0
    /\ mouse_events = 0
    /\ gesture = NoGesture
    /\ view = 0
    /\ binding_call = NoBindingCall
    /\ held_since = [k \in {} |-> 0]
    /\ integrated = [k \in {} |-> 0]
    /\ repeats = [k \in {} |-> 0]
    /\ evicted_at = [k \in {} |-> 0]
    /\ last_key_event = [k \in {} |-> ""]
    /\ search = SearchEntered
    /\ menu = EditMenuInit

\* ------------------------------------------------------ the Tk timer queue

\* after() that drops the callback.
AfterDropped(queue, ms) == queue

\* self.after(ms, self.do_movement): the callback joins the timer queue
\* behind the callbacks that are due no later.
After(queue, ms) ==
    LET due == now + ms
        n == Cardinality({i \in DOMAIN queue : queue[i] <= due})
    IN SubSeq(queue, 1, n) \o <<due>> \o SubSeq(queue, n + 1, Len(queue))

\* The clock advances by a millisecond; a due callback is run before it is
\* MaxLate milliseconds late.
AdvanceUntil(limit) ==
    /\ now < limit
    /\ pending # << >> => now < pending[1] + MaxLate
    /\ now' = now + 1
    /\ UNCHANGED <<key_hash, navigation_dict, view_state, mouseVars, keyVars,
                   pending, handler, calls, key_events, mouse_events, gesture,
                   view, binding_call, moduleVars, historyVars, last_key_event>>

\* The clock of the runs that end at MaxTime.
Advance == AdvanceUntil(MaxTime)

\* ------------------------------------------------------ key-motion integrator

\* tkKeyRelease that also takes the key out of the held set at once.
tkKeyReleaseEager(keysym) ==
    /\ key_events < MaxKeyEvents
    /\ key_events' = key_events + 1
    /\ time_key_release_received' =
           [k \in DOMAIN time_key_release_received \cup {keysym} |->
               IF k = keysym THEN now ELSE time_key_release_received[k]]
    /\ current_keys_pressed' = SetRemove(current_keys_pressed, keysym)
    /\ last_key_event' =
           [k \in DOMAIN last_key_event \cup {keysym} |->
               IF k = keysym THEN "release" ELSE last_key_event[k]]
    /\ handler' = "tkKeyRelease"
    /\ calls' = << >>
    /\ UNCHANGED <<now, key_hash, navigation_dict, view_state, mouseVars,
                   last_time, pending, mouse_events, gesture,
                   view, binding_call, moduleVars, historyVars>>

\* tkKeyRelease(event)
tkKeyRelease(keysym) ==
    /\ key_events < MaxKeyEvents
    /\ key_events' = key_events + 1
    /\ time_key_release_received' =
           [k \in DOMAIN time_key_release_received \cup {keysym} |->
               IF k = keysym THEN now ELSE time_key_release_received[k]]
    /\ last_key_event' =
           [k \in DOMAIN last_key_event \cup {keysym} |->
               IF k = keysym THEN "release" ELSE last_key_event[k]]
    /\ handler' = "tkKeyRelease"
    /\ calls' = << >>
    /\ UNCHANGED <<now, key_hash, navigation_dict, view_state, mouseVars,
                   current_keys_pressed, last_time, pending, mouse_events, gesture,
                   view, binding_call, moduleVars, historyVars>>

\* event.keysym in _key_movement_bindings
HasMovementBinding(keysym) == keysym \in key_movement_bindings

\* self.last_time[event.keysym] = time.time() that keeps the entry of a key
\* that has one.
PressedLastTimeKept(keysym) ==
    [k \in DOMAIN last_time \cup {keysym} |->
        IF k \in DOMAIN last_time THEN last_time[k] ELSE now]

\* tkKeyPress without the assignment to self.last_time[event.keysym].
PressedLastTimeUnset(keysym) == last_time

\* self.last_time[event.keysym] = time.time()
PressedLastTime(keysym) ==
    [k \in DOMAIN last_time \cup {keysym} |->
        IF k = keysym THEN now ELSE last_time[k]]

\* tkKeyPress without the test that the key is not yet in the set.
tkKeyPressUnguarded(keysym) ==
    /\ key_events < MaxKeyEvents
    /\ key_events' = key_events + 1
    /\ last_key_event' =
           [k \in DOMAIN last_key_event \cup {keysym} |->
               IF k = keysym THEN "press" ELSE last_key_event[k]]
    /\ handler' = "tkKeyPress"
    /\ IF HasMovementBinding(keysym)
       THEN /\ time_key_release_received' =
                   [k \in DOMAIN time_key_release_received \ {keysym} |->
                       time_key_release_received[k]]
            /\ IF TRUE
               THEN /\ last_time' = PressedLastTime(keysym)
                    /\ current_keys_pressed' =
                           SetAdd(current_keys_pressed, keysym, key_hash[keysym])
                    /\ pending' = After(pending, KeyPressDelay)
                    /\ calls' = <<AfterCall(KeyPressDelay)>>
                    /\ held_since' =
                           [k \in DOMAIN held_since \cup {keysym} |->
                               IF k = keysym THEN now ELSE held_since[k]]
                    /\ integrated' =
                           [k \in DOMAIN integrated \cup {keysym} |->
                               IF k = keysym THEN 0 ELSE integrated[k]]
                    /\ repeats' =
                           [k \in DOMAIN repeats \cup {keysym} |->
                               IF k = keysym THEN 0 ELSE repeats[k]]
                    /\ UNCHANGED evicted_at
               ELSE /\ calls' = << >>
                    /\ repeats' =
                           [repeats EXCEPT ![keysym] =
                               IF keysym \in DOMAIN time_key_release_received
                               THEN @ + 1 ELSE @]
                    /\ UNCHANGED <<last_time, current_keys_pressed, pending,
                                   held_since, integrated, evicted_at>>
            /\ UNCHANGED view
       ELSE /\ calls' = CASE keysym = "u" -> <<PrintCall(view_state)>>
                          [] keysym = "v" -> <<RedrawCall>>
                          [] OTHER -> << >>
            /\ view' = IF keysym = "v" THEN (view + 1) % ViewModes ELSE view
            /\ UNCHANGED <<keyVars, pending, historyVars>>
    /\ UNCHANGED <<now, key_hash, navigation_dict, view_state, mouseVars,
                   mouse_events, gesture, binding_call, moduleVars>>

\* tkKeyPress(event)
tkKeyPress(keysym) ==
    /\ key_events < MaxKeyEvents
    /\ key_events' = key_events + 1
    /\ last_key_event' =
           [k \in DOMAIN last_key_event \cup {keysym} |->
               IF k = keysym THEN "press" ELSE last_key_event[k]]
    /\ handler' = "tkKeyPress"
    /\ IF HasMovementBinding(keysym)
       THEN /\ time_key_release_received' =
                   [k \in DOMAIN time_key_release_received \ {keysym} |->
                       time_key_release_received[k]]
            /\ IF ~SetContains(current_keys_pressed, keysym)
               THEN /\ last_time' = PressedLastTime(keysym)
                    /\ current_keys_pressed' =
                           SetAdd(current_keys_pressed, keysym, key_hash[keysym])
                    /\ pending' = After(pending, KeyPressDelay)
                    /\ calls' = <<AfterCall(KeyPressDelay)>>
                    /\ held_since' =
                           [k \in DOMAIN held_since \cup {keysym} |->
                               IF k = keysym THEN now ELSE held_since[k]]
                    /\ integrated' =
                           [k \in DOMAIN integrated \cup {keysym} |->
                               IF k = keysym THEN 0 ELSE integrated[k]]
                    /\ repeats' =
                           [k \in DOMAIN repeats \cup {keysym} |->
                               IF k = keysym THEN 0 ELSE repeats[k]]
                    /\ UNCHANGED evicted_at
               ELSE /\ calls' = << >>
                    /\ repeats' =
                           [repeats EXCEPT ![keysym] =
                               IF keysym \in DOMAIN time_key_release_received
                               THEN @ + 1 ELSE @]
                    /\ UNCHANGED <<last_time, current_keys_pressed, pending,
                                   held_since, integrated, evicted_at>>
            /\ UNCHANGED view
       ELSE /\ calls' = CASE keysym = "u" -> <<PrintCall(view_state)>>
                          [] keysym = "v" -> <<RedrawCall>>
                          [] OTHER -> << >>
            /\ view' = IF keysym = "v" THEN (view + 1) % ViewModes ELSE view
            /\ UNCHANGED <<keyVars, pending, historyVars>>
    /\ UNCHANGED <<now, key_hash, navigation_dict, view_state, mouseVars,
                   mouse_events, gesture, binding_call, moduleVars>>

\* Evicted with the two times of the comparison exchanged.
EvictedExchanged(t) ==
    {k \in DOMAIN time_key_release_received :
        /\ time_key_release_received[k] - t > Debounce
        /\ SetContains(current_keys_pressed, k)}

\* Evicted with a release record exactly as old as the debounce window
\* counted as older.
EvictedAtThreshold(t) ==
    {k \in DOMAIN time_key_release_received :
        /\ t - time_key_release_received[k] >= Debounce
        /\ SetContains(current_keys_pressed, k)}

\* The keys do_movement removes from the set at time t: those with a
\* release record older than the debounce window.
Evicted(t) ==
    {k \in DOMAIN time_key_release_received :
        /\ t - time_key_release_received[k] > Debounce
        /\ SetContains(current_keys_pressed, k)}

\* The set after the eviction loop of do_movement.
AfterEviction(t) ==
    [i \in DOMAIN current_keys_pressed |->
        IF current_keys_pressed[i] \in Evicted(t) THEN Dummy
        ELSE current_keys_pressed[i]]

\* KeyStep with the rotation velocity scaling both amounts.
KeyStepOneVelocity(k, t) ==
    KeyMovement(k, (t - last_time[k]) * navigation_dict.rotationVelocity,
                   (t - last_time[k]) * navigation_dict.rotationVelocity)

\* KeyStep with the time taken since the key joined the held set, as if
\* last_time were not moved on by the ticks.
KeyStepSincePress(k, t) ==
    KeyMovement(k, (t - held_since[k]) * navigation_dict.rotationVelocity,
                   (t - held_since[k]) * navigation_dict.translationVelocity)

\* The matrix of one held key: its binding applied to the time since the
\* key was last integrated, scaled by the two velocities.
KeyStep(k, t) ==
    KeyMovement(k, (t - last_time[k]) * navigation_dict.rotationVelocity,
                   (t - last_time[k]) * navigation_dict.translationVelocity)

RECURSIVE MovementLoopLeft(_, _, _)
\* MovementLoop with each factor multiplied in on the left: m = binding * m.
MovementLoopLeft(m, keys, t) ==
    IF keys = << >> THEN m
    ELSE MovementLoopLeft(Mul(KeyStep(Head(keys), t), m), Tail(keys), t)

RECURSIVE MovementLoop(_, _, _)
\* The loop "for k in self.current_keys_pressed: m = m * binding[k](...)".
MovementLoop(m, keys, t) ==
    IF keys = << >> THEN m
    ELSE MovementLoop(Mul(m, KeyStep(Head(keys), t)), Tail(keys), t)

\* The amount of the matrix of one held key: the signed angle or distance
\* of the generator its binding built.
StepAmount(k, t) == IF KeyStep(k, t) = Identity THEN 0 ELSE KeyStep(k, t)[1].n

\* do_movement that re-arms itself before it tests whether a key is held.
do_movementAlwaysRearms ==
    /\ pending # << >>
    /\ pending[1] <= now
    /\ handler' = "do_movement"
    /\ current_keys_pressed' = AfterEviction(now)
    /\ LET keys == SetIter(AfterEviction(now))
           m == MovementLoop(Identity, keys, now)
       IN IF keys = << >>
          THEN /\ pending' = After(Tail(pending), refresh_delay)
               /\ calls' = <<AfterCall(refresh_delay)>>
               /\ UNCHANGED <<view_state, last_time>>
          ELSE /\ last_time' =
                      [k \in DOMAIN last_time |->
                          IF SetContains(AfterEviction(now), k) THEN now
                          ELSE last_time[k]]
               /\ view_state' = update_view_state(view_state, m)
               /\ calls' = <<UpdateCall(view_state, m), RedrawCall,
                             AfterCall(refresh_delay)>>
               /\ pending' = After(Tail(pending), refresh_delay)
    /\ held_since' = [k \in SetKeys(AfterEviction(now)) |-> held_since[k]]
    /\ repeats' = [k \in SetKeys(AfterEviction(now)) |-> repeats[k]]
    /\ evicted_at' =
           [k \in DOMAIN evicted_at \cup
                      (SetKeys(current_keys_pressed) \ SetKeys(AfterEviction(now))) |->
               IF k \in SetKeys(AfterEviction(now)) \/ ~SetContains(current_keys_pressed, k)
               THEN evicted_at[k] ELSE now]
    /\ integrated' =
           [k \in SetKeys(AfterEviction(now)) |-> integrated[k] + StepAmount(k, now)]
    /\ gesture' = IF SetIter(AfterEviction(now)) = << >> THEN gesture
                   ELSE Interleaved("do_movement")
    /\ UNCHANGED <<now, key_hash, navigation_dict, mouseVars,
                   time_key_release_received, key_events, mouse_events,
                   view, binding_call, moduleVars, last_key_event>>

\* do_movement requesting the redraw before the update.
do_movementRedrawFirst ==
    /\ pending # << >>
    /\ pending[1] <= now
    /\ handler' = "do_movement"
    /\ current_keys_pressed' = AfterEviction(now)
    /\ LET keys == SetIter(AfterEviction(now))
           m == MovementLoop(Identity, keys, now)
       IN IF keys = << >>
          THEN /\ pending' = Tail(pending)
               /\ calls' = << >>
               /\ UNCHANGED <<view_state, last_time>>
          ELSE /\ last_time' =
                      [k \in DOMAIN last_time |->
                          IF SetContains(AfterEviction(now), k) THEN now
                          ELSE last_time[k]]
               /\ view_state' = update_view_state(view_state, m)
               /\ calls' = <<RedrawCall, UpdateCall(view_state, m),
                             AfterCall(refresh_delay)>>
               /\ pending' = After(Tail(pending), refresh_delay)
    /\ held_since' = [k \in SetKeys(AfterEviction(now)) |-> held_since[k]]
    /\ repeats' = [k \in SetKeys(AfterEviction(now)) |-> repeats[k]]
    /\ evicted_at' =
           [k \in DOMAIN evicted_at \cup
                      (SetKeys(current_keys_pressed) \ SetKeys(AfterEviction(now))) |->
               IF k \in SetKeys(AfterEviction(now)) \/ ~SetContains(current_keys_pressed, k)
               THEN evicted_at[k] ELSE now]
    /\ integrated' =
           [k \in SetKeys(AfterEviction(now)) |-> integrated[k] + StepAmount(k, now)]
    /\ gesture' = IF SetIter(AfterEviction(now)) = << >> THEN gesture
                   ELSE Interleaved("do_movement")
    /\ UNCHANGED <<now, key_hash, navigation_dict, mouseVars,
                   time_key_release_received, key_events, mouse_events,
                   view, binding_call, moduleVars, last_key_event>>

\* do_movement(), run by the timer queue when its earliest callback is due.
do_movement ==
    /\ pending # << >>
    /\ pending[1] <= now
    /\ handler' = "do_movement"
    /\ current_keys_pressed' = AfterEviction(now)
    /\ LET keys == SetIter(AfterEviction(now))
           m == MovementLoop(Identity, keys, now)
       IN IF keys = << >>
          THEN /\ pending' = Tail(pending)
               /\ calls' = << >>
               /\ UNCHANGED <<view_state, last_time>>
          ELSE /\ last_time' =
                      [k \in DOMAIN last_time |->
                          IF SetContains(AfterEviction(now), k) THEN now
                          ELSE last_time[k]]
               /\ view_state' = update_view_state(view_state, m)
               /\ calls' = <<UpdateCall(view_state, m), RedrawCall,
                             AfterCall(refresh_delay)>>
               /\ pending' = After(Tail(pending), refresh_delay)
    /\ held_since' = [k \in SetKeys(AfterEviction(now)) |-> held_since[k]]
    /\ repeats' = [k \in SetKeys(AfterEviction(now)) |-> repeats[k]]
    /\ evicted_at' =
           [k \in DOMAIN evicted_at \cup
                      (SetKeys(current_keys_pressed) \ SetKeys(AfterEviction(now))) |->
               IF k \in SetKeys(AfterEviction(now)) \/ ~SetContains(current_keys_pressed, k)
               THEN evicted_at[k] ELSE now]
    /\ integrated' =
           [k \in SetKeys(AfterEviction(now)) |-> integrated[k] + StepAmount(k, now)]
    /\ gesture' = IF SetIter(AfterEviction(now)) = << >> THEN gesture
                   ELSE Interleaved("do_movement")
    /\ UNCHANGED <<now, key_hash, navigation_dict, mouseVars,
                   time_key_release_received, key_events, mouse_events,
                   view, binding_call, moduleVars, last_key_event>>

\* The key events, the timer and the clock.
KeyNext ==
    \/ \E keysym \in MovementKeys : tkKeyPress(keysym)
    \/ \E keysym \in MovementKeys : tkKeyRelease(keysym)
    \/ do_movement
    \/ Advance

KeySpec == Init /\ [][KeyNext]_vars

\* The key "a" alone, in runs long enough for it to be pressed, released,
\* evicted, pressed again and integrated again.
RepressNext ==
    \/ tkKeyPress("a")
    \/ tkKeyRelease("a")
    \/ do_movement
    \/ AdvanceUntil(MaxRepressTime)

RepressSpec == Init /\ [][RepressNext]_vars

\* Keys without a movement binding that the modelled keyboard delivers: a
\* key the program knows nothing of, and the two keys tkKeyPress has
\* branches for.
OtherKeys == {"q", "u", "v"}

\* The keyboard with one movement key and the keys without a binding.
KeyboardNext ==
    \/ \E keysym \in {"a"} \cup OtherKeys : tkKeyPress(keysym)
    \/ \E keysym \in {"a"} \cup OtherKeys : tkKeyRelease(keysym)
    \/ do_movement
    \/ Advance

KeyboardSpec == Init /\ [][KeyboardNext]_vars

\* ------------------------------------------- the bindings, called directly

\* The amounts a binding is called with.
Amounts == -MaxAmount .. MaxAmount

\* _key_movement_bindings[key](rot_amount, trans_amount)
call_key_movement_binding(key, rot_amount, trans_amount) ==
    /\ binding_call' = BindingCall(key, rot_amount, trans_amount,
                                   KeyMovement(key, rot_amount, trans_amount))
    /\ handler' = "_key_movement_bindings"
    /\ calls' = << >>
    /\ UNCHANGED <<now, key_hash, navigation_dict, view_state, mouseVars, keyVars,
                   pending, key_events, mouse_events, gesture, view, historyVars,
                   last_key_event, moduleVars>>

BindingNext ==
    \E key \in key_movement_bindings, rot_amount \in Amounts, trans_amount \in Amounts :
        call_key_movement_binding(key, rot_amount, trans_amount)

BindingSpec == Init /\ [][BindingNext]_vars

\* ------------------------------------------------------- pointer gestures

\* The pixels the modelled mouse visits.
Positions == {<<0, 0>>, <<1, 0>>, <<0, 1>>}

\* read_depth_value(x, y) returns (depth, width, height): the depths the
\* modelled scene reports, as numerators over a common denominator greater
\* than 1 (every depth lies strictly between -1 and 1, where atanh is
\* defined), and the size of the viewport.
Depths == {0, 1}

Viewport == [width |-> 4, height |-> 2]

\* The unit vector of the pixel (x, y): the normalised vector with components
\* (x - width/2) / width, ((height - y) - height/2) / width and
\* -0.5 / tan(fov / 360 * pi).
Unproject(x, y, width, height) ==
    Direction("pick", <<2 * x - width, height - 2 * y, -1>>)

\* What a drag sample of the given mode at pos adds to the record of the
\* gesture; samples are the positions of the press and of the drag samples
\* since.
Dragged(mode, pos) ==
    IF ~gesture.down THEN gesture
    ELSE [gesture EXCEPT !.drags =
             IF gesture.mode = mode /\ gesture.drags # "mixed" THEN "own"
             ELSE "mixed",
                         !.samples = Append(@, pos),
                         !.between =
             IF mode = "rotate" /\ mouse_pos_when_pressed \notin {None, pos}
             THEN @ \cup {"tkCtrlButtonMotion1"} ELSE @]

\* tkButton1(event), bound to <Button-1> and to <Control-Button-1>
tkButton1(pos, modifier) ==
    /\ ~gesture.down
    /\ mouse_events < MaxMouseEvents
    /\ mouse_events' = mouse_events + 1
    /\ mouse_pos_when_pressed' = pos
    /\ view_state_when_pressed' = view_state
    /\ handler' = "tkButton1"
    /\ calls' = << >>
    /\ gesture' = [mode |-> IF modifier = "Control" THEN "rotate" ELSE "free",
                   pos |-> pos, state |-> view_state, drags |-> "none",
                   down |-> TRUE, samples |-> <<pos>>, between |-> {}]
    /\ UNCHANGED <<now, key_hash, navigation_dict, view_state, last_mouse_pos,
                   orbit_translation, orbit_inv_translation, orbit_rotation,
                   keyVars, pending, key_events>>
    /\ UNCHANGED <<view, binding_call, moduleVars, historyVars, last_key_event>>

\* OrbitInvTranslation with the sign of the depth kept.
OrbitInvTranslationSameSign(dir, depth) ==
    unit_3_vector_and_distance_to_O13_hyperbolic_translation(dir, <<"atanh", depth>>)

\* self.orbit_inv_translation: the translation along dir by atanh(-depth).
OrbitInvTranslation(dir, depth) ==
    unit_3_vector_and_distance_to_O13_hyperbolic_translation(dir, <<"atanh", -depth>>)

\* self.orbit_translation: the translation along dir by atanh(depth).
OrbitTranslation(dir, depth) ==
    unit_3_vector_and_distance_to_O13_hyperbolic_translation(dir, <<"atanh", depth>>)

\* tkAltButton1(event), bound to <Option-Button-1>
tkAltButton1(pos, depth) ==
    /\ ~gesture.down
    /\ mouse_events < MaxMouseEvents
    /\ mouse_events' = mouse_events + 1
    /\ last_mouse_pos' = pos
    /\ view_state_when_pressed' = view_state
    /\ LET dir == Unproject(pos[1], pos[2], Viewport.width, Viewport.height)
       IN /\ orbit_translation' = OrbitTranslation(dir, depth)
          /\ orbit_inv_translation' = OrbitInvTranslation(dir, depth)
    /\ orbit_rotation' = Identity
    /\ handler' = "tkAltButton1"
    /\ calls' = << >>
    /\ gesture' = [mode |-> "orbit", pos |-> pos, state |-> view_state,
                   drags |-> "none", down |-> TRUE, samples |-> <<pos>>,
                   between |-> {}]
    /\ UNCHANGED <<now, key_hash, navigation_dict, view_state,
                   mouse_pos_when_pressed, keyVars, pending, key_events>>
    /\ UNCHANGED <<view, binding_call, moduleVars, historyVars, last_key_event>>

\* The rotation of an orbit drag sample by (delta_x, delta_y):
\* O13_y_rotation(delta_x * 0.01) * O13_x_rotation(delta_y * 0.01).
OrbitDrag(delta_x, delta_y) ==
    Mul(O13_y_rotation(delta_x * MouseFactor),
        O13_x_rotation(delta_y * MouseFactor))

\* The accumulated rotation with m multiplied in on the left.
OrbitAccumulateLeft(rotation, m) == Mul(m, rotation)

\* self.orbit_rotation * m
OrbitAccumulate(rotation, m) == Mul(rotation, m)

\* tkAltButtonMotion1 that applies the operator to the current view state.
tkAltButtonMotion1OnCurrent(pos) ==
    /\ mouse_events < MaxMouseEvents
    /\ mouse_events' = mouse_events + 1
    /\ handler' = "tkAltButtonMotion1"
    /\ gesture' = Dragged("orbit", pos)
    /\ IF last_mouse_pos = None
       THEN /\ calls' = << >>
            /\ UNCHANGED <<view_state, last_mouse_pos, orbit_rotation>>
       ELSE LET delta_x == pos[1] - last_mouse_pos[1]
                delta_y == pos[2] - last_mouse_pos[2]
                m == OrbitDrag(delta_x, delta_y)
                rotation == OrbitAccumulate(orbit_rotation, m)
                sandwich == Mul(Mul(orbit_translation, rotation),
                                orbit_inv_translation)
            IN /\ orbit_rotation' = rotation
               /\ view_state' = update_view_state(view_state, sandwich)
               /\ last_mouse_pos' = pos
               /\ calls' = <<UpdateCall(view_state_when_pressed, sandwich),
                             RedrawCall>>
    /\ UNCHANGED <<now, key_hash, navigation_dict, mouse_pos_when_pressed,
                   view_state_when_pressed, orbit_translation,
                   orbit_inv_translation, keyVars, pending, key_events>>
    /\ UNCHANGED <<view, binding_call, moduleVars, historyVars, last_key_event>>

\* tkAltButtonMotion1(event), bound to <Option-B1-Motion>
tkAltButtonMotion1(pos) ==
    /\ mouse_events < MaxMouseEvents
    /\ mouse_events' = mouse_events + 1
    /\ handler' = "tkAltButtonMotion1"
    /\ gesture' = Dragged("orbit", pos)
    /\ IF last_mouse_pos = None
       THEN /\ calls' = << >>
            /\ UNCHANGED <<view_state, last_mouse_pos, orbit_rotation>>
       ELSE LET delta_x == pos[1] - last_mouse_pos[1]
                delta_y == pos[2] - last_mouse_pos[2]
                m == OrbitDrag(delta_x, delta_y)
                rotation == OrbitAccumulate(orbit_rotation, m)
                sandwich == Mul(Mul(orbit_translation, rotation),
                                orbit_inv_translation)
            IN /\ orbit_rotation' = rotation
               /\ view_state' = update_view_state(view_state_when_pressed, sandwich)
               /\ last_mouse_pos' = pos
               /\ calls' = <<UpdateCall(view_state_when_pressed, sandwich),
                             RedrawCall>>
    /\ UNCHANGED <<now, key_hash, navigation_dict, mouse_pos_when_pressed,
                   view_state_when_pressed, orbit_translation,
                   orbit_inv_translation, keyVars, pending, key_events>>
    /\ UNCHANGED <<view, binding_call, moduleVars, historyVars, last_key_event>>

\* The translation of a free drag by (delta_x, delta_y), which is not (0, 0):
\* along (-delta_x / amt, delta_y / amt, 0) by amt * 0.01.
FreeDrag(delta_x, delta_y) ==
    unit_3_vector_and_distance_to_O13_hyperbolic_translation(
        Direction("drag", <<-delta_x, delta_y, 0>>),
        <<"len", delta_x * delta_x + delta_y * delta_y>>)

\* FreeDragTarget applied to the current view state in place of the state
\* captured at the press.
FreeDragTargetCumulative(delta_x, delta_y) ==
    IF delta_x * delta_x + delta_y * delta_y = 0
    THEN view_state
    ELSE update_view_state(view_state, FreeDrag(delta_x, delta_y))

\* The view state a free drag by (delta_x, delta_y) from the anchor assigns.
FreeDragTarget(delta_x, delta_y) ==
    IF delta_x * delta_x + delta_y * delta_y = 0
    THEN view_state_when_pressed
    ELSE update_view_state(view_state_when_pressed, FreeDrag(delta_x, delta_y))

\* tkButtonMotion1(event), bound to <B1-Motion>
tkButtonMotion1(pos) ==
    /\ mouse_events < MaxMouseEvents
    /\ mouse_events' = mouse_events + 1
    /\ handler' = "tkButtonMotion1"
    /\ gesture' = Dragged("free", pos)
    /\ IF mouse_pos_when_pressed = None
       THEN /\ calls' = << >>
            /\ UNCHANGED view_state
       ELSE LET delta_x == pos[1] - mouse_pos_when_pressed[1]
                delta_y == pos[2] - mouse_pos_when_pressed[2]
            IN /\ view_state' = FreeDragTarget(delta_x, delta_y)
               /\ calls' =
                      IF delta_x * delta_x + delta_y * delta_y = 0
                      THEN <<RedrawCall>>
                      ELSE <<UpdateCall(view_state_when_pressed,
                                        FreeDrag(delta_x, delta_y)),
                             RedrawCall>>
    /\ UNCHANGED <<now, key_hash, navigation_dict, mouseVars, keyVars, pending,
                   key_events>>
    /\ UNCHANGED <<view, binding_call, moduleVars, historyVars, last_key_event>>

\* tkButtonRelease1(event), bound to <ButtonRelease-1> and to
\* <Control-ButtonRelease-1>; Tk also runs it for a release with Option held,
\* for which no more specific binding exists.
tkButtonRelease1 ==
    /\ gesture.down
    /\ mouse_events < MaxMouseEvents
    /\ mouse_events' = mouse_events + 1
    /\ mouse_pos_when_pressed' = None
    /\ handler' = "tkButtonRelease1"
    /\ calls' = << >>
    /\ gesture' = [gesture EXCEPT !.down = FALSE]
    /\ UNCHANGED <<now, key_hash, navigation_dict, view_state,
                   view_state_when_pressed, last_mouse_pos, orbit_translation,
                   orbit_inv_translation, orbit_rotation, keyVars, pending,
                   key_events>>
    /\ UNCHANGED <<view, binding_call, moduleVars, historyVars, last_key_event>>

\* RotationDrag with the minus sign of delta_y lost.
RotationDragUnsignedY(delta_x, delta_y) ==
    Mul(O13_y_rotation((-delta_x) * MouseFactor),
        O13_x_rotation(delta_y * MouseFactor))

\* The matrix of an in-place rotation drag by (delta_x, delta_y):
\* O13_y_rotation(-delta_x * 0.01) * O13_x_rotation(-delta_y * 0.01).
RotationDrag(delta_x, delta_y) ==
    Mul(O13_y_rotation((-delta_x) * MouseFactor),
        O13_x_rotation((-delta_y) * MouseFactor))

\* tkCtrlButtonMotion1 that leaves the position it measures from in place.
tkCtrlButtonMotion1FromPress(pos) ==
    /\ mouse_events < MaxMouseEvents
    /\ mouse_events' = mouse_events + 1
    /\ handler' = "tkCtrlButtonMotion1"
    /\ gesture' = Dragged("rotate", pos)
    /\ IF mouse_pos_when_pressed = None
       THEN /\ calls' = << >>
            /\ UNCHANGED <<view_state, mouse_pos_when_pressed>>
       ELSE LET delta_x == pos[1] - mouse_pos_when_pressed[1]
                delta_y == pos[2] - mouse_pos_when_pressed[2]
                m == RotationDrag(delta_x, delta_y)
            IN /\ view_state' = update_view_state(view_state, m)
               /\ mouse_pos_when_pressed' = mouse_pos_when_pressed
               /\ calls' = <<UpdateCall(view_state, m), RedrawCall>>
    /\ UNCHANGED <<now, key_hash, navigation_dict, view_state_when_pressed,
                   last_mouse_pos, orbit_translation, orbit_inv_translation,
                   orbit_rotation, keyVars, pending, key_events>>
    /\ UNCHANGED <<view, binding_call, moduleVars, historyVars, last_key_event>>

\* tkCtrlButtonMotion1(event), bound to <Control-B1-Motion>
tkCtrlButtonMotion1(pos) ==
    /\ mouse_events < MaxMouseEvents
    /\ mouse_events' = mouse_events + 1
    /\ handler' = "tkCtrlButtonMotion1"
    /\ gesture' = Dragged("rotate", pos)
    /\ IF mouse_pos_when_pressed = None
       THEN /\ calls' = << >>
            /\ UNCHANGED <<view_state, mouse_pos_when_pressed>>
       ELSE LET delta_x == pos[1] - mouse_pos_when_pressed[1]
                delta_y == pos[2] - mouse_pos_when_pressed[2]
                m == RotationDrag(delta_x, delta_y)
            IN /\ view_state' = update_view_state(view_state, m)
               /\ mouse_pos_when_pressed' = pos
               /\ calls' = <<UpdateCall(view_state, m), RedrawCall>>
    /\ UNCHANGED <<now, key_hash, navigation_dict, view_state_when_pressed,
                   last_mouse_pos, orbit_translation, orbit_inv_translation,
                   orbit_rotation, keyVars, pending, key_events>>
    /\ UNCHANGED <<view, binding_call, moduleVars, historyVars, last_key_event>>

\* The mouse events.
GestureNext ==
    \/ \E pos \in Positions, modifier \in {"", "Control"} : tkButton1(pos, modifier)
    \/ \E pos \in Positions, depth \in Depths : tkAltButton1(pos, depth)
    \/ \E pos \in Positions : tkButtonMotion1(pos)
    \/ \E pos \in Positions : tkCtrlButtonMotion1(pos)
    \/ \E pos \in Positions : tkAltButtonMotion1(pos)
    \/ tkButtonRelease1

GestureSpec == Init /\ [][GestureNext]_vars

\* ------------------------------------------- replacing the view state

\* reset_view_state that cancels the pending ticks.
reset_view_stateCancelsTicks ==
    /\ view_state' = initial_view_state
    /\ handler' = "reset_view_state"
    /\ calls' = << >>
    /\ pending' = << >>
    /\ gesture' = Interleaved("reset_view_state")
    /\ UNCHANGED <<now, key_hash, navigation_dict, mouseVars, keyVars,
                   key_events, mouse_events, view, binding_call, moduleVars,
                   historyVars, last_key_event>>

\* reset_view_state()
reset_view_state ==
    /\ view_state' = initial_view_state
    /\ handler' = "reset_view_state"
    /\ calls' = << >>
    /\ gesture' = Interleaved("reset_view_state")
    /\ UNCHANGED <<now, key_hash, navigation_dict, mouseVars, keyVars, pending,
                   key_events, mouse_events, view, binding_call, moduleVars,
                   historyVars, last_key_event>>

\* fix_view_state(): update_view_state called with the state alone returns
\* the state, validated and normalised, without motion.
fix_view_state ==
    /\ view_state' = update_view_state(view_state, Identity)
    /\ handler' = "fix_view_state"
    /\ calls' = <<FixCall(view_state)>>
    /\ gesture' = Interleaved("fix_view_state")
    /\ UNCHANGED <<now, key_hash, navigation_dict, mouseVars, keyVars, pending,
                   key_events, mouse_events, view, binding_call, moduleVars,
                   historyVars, last_key_event>>

\* The mouse events and the two methods the host widget calls.
ViewStateNext ==
    \/ GestureNext
    \/ reset_view_state
    \/ fix_view_state

ViewStateSpec == Init /\ [][ViewStateNext]_vars

\* The two methods called while the key "a" is pressed and released, ticks
\* run and an orbit gesture pressed at pixel (0, 0), of depth 1, is dragged
\* to pixel (1, 0); at most MaxHostMouseEvents mouse events arrive.
HostNext ==
    \/ tkKeyPress("a")
    \/ tkKeyRelease("a")
    \/ do_movement
    \/ Advance
    \/ mouse_events < MaxHostMouseEvents /\ tkAltButton1(<<0, 0>>, 1)
    \/ mouse_events < MaxHostMouseEvents /\ tkAltButtonMotion1(<<1, 0>>)
    \/ reset_view_state
    \/ fix_view_state

HostSpec == Init /\ [][HostNext]_vars

\* The key "a" pressed and integrated by ticks, the two methods of the host
\* and the mouse: a press at pixel (0, 0), plain, with Control or with Option
\* at depth 1, and drag samples of the three modes at pixel (1, 0); at most
\* MaxAnchorMouseEvents mouse events arrive, in MaxAnchorTime milliseconds.
AnchorNext ==
    \/ tkKeyPress("a")
    \/ do_movement
    \/ AdvanceUntil(MaxAnchorTime)
    \/ mouse_events < MaxAnchorMouseEvents /\ tkButton1(<<0, 0>>, "")
    \/ mouse_events < MaxAnchorMouseEvents /\ tkAltButton1(<<0, 0>>, 1)
    \/ mouse_events < MaxAnchorMouseEvents /\ tkButtonMotion1(<<1, 0>>)
    \/ mouse_events < MaxAnchorMouseEvents /\ tkCtrlButtonMotion1(<<1, 0>>)
    \/ mouse_events < MaxAnchorMouseEvents /\ tkAltButtonMotion1(<<1, 0>>)
    \/ reset_view_state
    \/ fix_view_state

AnchorSpec == Init /\ [][AnchorNext]_vars

\* A do_movement callback is due.
TickDue == pending # << >> /\ pending[1] <= now

\* The key events, the timer and the clock, with the timer queue and the
\* clock never starved: Tk runs a due callback, and time passes.
\* Weak fairness of do_movement is written out: TickDue is
\* ENABLED <<do_movement>>_vars.
LiveKeySpec ==
    /\ KeySpec
    /\ WF_vars(Advance)
    /\ ([]<>(~TickDue) \/ []<><<do_movement>>_vars)

\* ------------------------------------- verify/realAlgebra.py: the search

\* polynomial.factor() seen through eval_method: for each factor, whether 0
\* is in the interval eval_method returns for it.
ZeroFlags == UNION {[1 .. n -> BOOLEAN] : n \in 1 .. MaxFactors}

\* The degrees yEqn_factor.degree() is drawn from.
Degrees == 1 .. 2

\* _find_unique_good_factor returning the first factor whose interval
\* contains 0, if there is one.
find_unique_good_factorFirst(zeros) ==
    LET good_factors == SelectSeq([i \in 1 .. Len(zeros) |-> i], LAMBDA i : zeros[i])
    IN [raised |-> good_factors = << >>,
        factor |-> IF good_factors = << >> THEN 0 ELSE good_factors[1]]

\* _find_unique_good_factor(polynomial, eval_method): the index of the
\* factor returned, or _IsolateFactorError raised.
find_unique_good_factor(zeros) ==
    LET good_factors == SelectSeq([i \in 1 .. Len(zeros) |-> i], LAMBDA i : zeros[i])
    IN [raised |-> Len(good_factors) # 1,
        factor |-> IF Len(good_factors) # 1 THEN 0 ELSE good_factors[1]]

\* _solve_two_equations(eqn1, eqn2, x_val, y_val), given what the two
\* factorisations and evaluations yield and the degree of the factor of yEqn
\* found; yEqn is not factored when the factor of the resultant was not
\* found.  find is the last call of _find_unique_good_factor made.
solve_two_equations(resultant, yEqn, degree) ==
    LET resultant_factor == find_unique_good_factor(resultant)
        yEqn_factor == find_unique_good_factor(yEqn)
    IN IF resultant_factor.raised
       THEN [outcome |-> "_IsolateFactorError", find_zeros |-> resultant,
             find_factor |-> 0]
       ELSE [outcome |-> IF yEqn_factor.raised THEN "_IsolateFactorError"
                         ELSE IF degree # 1 THEN "None"
                         ELSE "solution",
             find_zeros |-> yEqn,
             find_factor |-> yEqn_factor.factor]

RECURSIVE Pow2(_)
\* 2 ** n
Pow2(n) == IF n = 0 THEN 1 ELSE 2 * Pow2(n - 1)

\* The handler of _IsolateFactorError, with k increased in place of the
\* precision.
IsolateFactorErrorHandledByK(frame) ==
    [frame EXCEPT !.k = @ + 1]

\* except _IsolateFactorError: one more doubling of the precision, and the
\* intervals recomputed with it.
IsolateFactorErrorHandled(frame) ==
    [frame EXCEPT !.extra_prec = @ + 1,
                  !.prec = DoublePrecision * Pow2(frame.extra_prec + 1)]

\* The while condition.
SearchContinues(frame) == frame.k < MaxK /\ frame.extra_prec < MaxExtraPrec

\* One iteration of the while loop.
search_iteration(resultant, yEqn, degree) ==
    /\ search.pc = "loop"
    /\ SearchContinues(search)
    /\ LET solution == solve_two_equations(resultant, yEqn, degree)
           called == [search EXCEPT !.attempts = @ + 1,
                                    !.solve_k = search.k,
                                    !.solve_prec = search.prec,
                                    !.outcome = solution.outcome,
                                    !.find_zeros = solution.find_zeros,
                                    !.find_factor = solution.find_factor]
       IN search' =
             IF solution.outcome = "_IsolateFactorError"
             THEN IsolateFactorErrorHandled(called)
             ELSE IF solution.outcome = "solution"
             THEN [called EXCEPT !.pc = "returned", !.result = "solution"]
             ELSE [called EXCEPT !.k = @ + 1]
    /\ UNCHANGED <<now, key_hash, navigation_dict, view_state, mouseVars, keyVars,
                   pending, handler, calls, key_events, mouse_events, gesture,
                   view, binding_call, historyVars, last_key_event, menu>>

\* The loop is left: return None.
search_give_up ==
    /\ search.pc = "loop"
    /\ ~SearchContinues(search)
    /\ search' = [search EXCEPT !.pc = "returned", !.result = "None"]
    /\ UNCHANGED <<now, key_hash, navigation_dict, view_state, mouseVars, keyVars,
                   pending, handler, calls, key_events, mouse_events, gesture,
                   view, binding_call, historyVars, last_key_event, menu>>

\* The search, with every outcome of the factorisations.
SearchNext ==
    \/ \E resultant \in ZeroFlags :
          \E yEqn \in (IF find_unique_good_factor(resultant).raised THEN {<< >>}
                       ELSE ZeroFlags) :
             \E degree \in (IF find_unique_good_factor(yEqn).raised THEN {1}
                            ELSE Degrees) :
                search_iteration(resultant, yEqn, degree)
    \/ search_give_up

SearchSpec == Init /\ [][SearchNext]_vars

\* The search runs on while it has not returned.  Weak fairness of
\* SearchNext is written out: SearchNext is enabled while the search is in
\* its loop, and its steps are the steps that change the frame.
LiveSearchSpec ==
    /\ SearchSpec
    /\ ([]<>(search.pc # "loop") \/ []<><<search.pc = "loop">>_search)

\* ------------------------------------------ app_menus.py: the Edit menu

\* The dicts the callback returns: some of the four labels and of one key
\* that is no entry, each with a function or with a value that is false.
ActionDicts ==
    UNION {[keys -> {"function", "None"}] : keys \in SUBSET (EntryLabels \cup {"Undo"})}

\* dict.get(key, default)
DictGet(dict, key, default) == IF key \in DOMAIN dict THEN dict[key] ELSE default

\* The truth value of a value of the dict.
Truthy(value) == value = "function"

\* The state configure gives an entry, taking the presence of the key for
\* the truth of its value.
EntryStateKeyPresent(actions, entry) ==
    IF entry \in DOMAIN actions THEN "normal" ELSE "disabled"

\* The state configure gives an entry.
EntryState(actions, entry) ==
    IF Truthy(DictGet(actions, entry, "None")) THEN "normal" ELSE "disabled"

RECURSIVE ConfigureEntries(_, _, _)
\* for entry in self.entries: self.entryconfig(entry, state=...)
ConfigureEntries(state, actions, remaining) ==
    IF remaining = << >> THEN state
    ELSE ConfigureEntries([state EXCEPT ![Head(remaining)] =
                                            EntryState(actions, Head(remaining))],
                          actions, Tail(remaining))

\* EditMenu.configure(), the postcommand of the menu; actions is what the
\* callback returns.
configure(actions) ==
    /\ menu' = [actions |-> actions,
                state |-> ConfigureEntries(menu.state, actions, entries),
                previous |-> menu.state]
    /\ UNCHANGED <<now, key_hash, navigation_dict, view_state, mouseVars, keyVars,
                   pending, handler, calls, key_events, mouse_events, gesture,
                   view, binding_call, historyVars, last_key_event, search>>

MenuNext == \E actions \in ActionDicts : configure(actions)

MenuSpec == Init /\ [][MenuNext]_vars

\* ----------------------------------------------------------------- claims

\* The keys the held set contains.
Held == SetKeys(current_keys_pressed)

\* The update_view_state calls among the calls of the last handler.
UpdateCalls(cs) == SelectSeq(cs, LAMBDA c : c.f = "update_view_state")

\* The last handler was a key press that added key k to an empty held set.
PressedAlone(k) ==
    /\ handler = "tkKeyPress"
    /\ calls = <<AfterCall(KeyPressDelay)>>
    /\ Held = {k}

\* A gesture begun by a press of the given mode is in progress.
InProgress(mode) == gesture.down /\ gesture.mode = mode

\* A gesture of the given mode is in progress and every drag sample since
\* its press was of that mode.
Unmixed(mode) == InProgress(mode) /\ gesture.drags # "mixed"

\* C1: at most one do_movement callback is pending at any time.
C1_AtMostOneTickPending == Len(pending) <= 1

\* C2: a drag callback that arrives while no gesture that set its anchor is
\* in progress changes neither the view state nor the anchors nor the
\* accumulated orbit rotation, and requests no redraw.  (A press with or
\* without Control sets the anchor of the free and of the rotation drag.)
C2_DragWithoutAnchorIsNoOp ==
    [][\A pos \in Positions :
        /\ (tkButtonMotion1(pos) \/ tkCtrlButtonMotion1(pos))
             /\ ~(InProgress("free") \/ InProgress("rotate"))
           => calls' = << >> /\ UNCHANGED <<view_state, mouseVars>>
        /\ tkAltButtonMotion1(pos) /\ ~InProgress("orbit")
           => calls' = << >> /\ UNCHANGED <<view_state, mouseVars>>]_vars

\* Every held key has a release record, no further key event will arrive,
\* and the horizon leaves every pending callback time to run and to be
\* followed by one more tick.
C3_AllReleased ==
    /\ key_events = MaxKeyEvents
    /\ Held \subseteq DOMAIN time_key_release_received
    /\ now + refresh_delay <= MaxTime
    /\ \A i \in DOMAIN pending : pending[i] + MaxLate + refresh_delay <= MaxTime

\* C3: once every held key has been released and no key is pressed any
\* more, eventually the held set is empty and no do_movement callback is
\* pending.
C3_TickChainTerminates == C3_AllReleased ~> (Held = {} /\ pending = << >>)

\* C3 witness: a tick has evicted a released key, found the held set empty
\* and not re-armed, and nothing is pending.
C3_Witness ==
    /\ handler = "do_movement"
    /\ calls = << >>
    /\ key_events = MaxKeyEvents
    /\ Held = {}
    /\ pending = << >>
    /\ \E i \in DOMAIN current_keys_pressed : current_keys_pressed[i] = Dummy

\* C4: pressing "a" when no key is held records the press time, and the next
\* tick passes to update exactly one operator, the translation along
\* (-1, 0, 0) by the time since the press times translationVelocity.
C4_PressAThenTick ==
    [][/\ tkKeyPress("a") /\ Held = {}
          => PressedAlone("a")' /\ last_time'["a"] = now
       /\ do_movement /\ PressedAlone("a")
          => UpdateCalls(calls') =
                <<UpdateCall(view_state,
                    unit_3_vector_and_distance_to_O13_hyperbolic_translation(
                        Direction("unit", <<-1, 0, 0>>),
                        <<"lin", (now - last_time["a"])
                                     * navigation_dict.translationVelocity>>))>>]_vars

\* C4 witness: the only key event was the press of "a", a tick has run, and
\* the view has moved along (-1, 0, 0) by translationVelocity times the delay
\* of the first tick, with a rotation velocity that differs.
C4_Witness ==
    /\ handler = "do_movement"
    /\ key_events = 1
    /\ Held = {"a"}
    /\ navigation_dict.rotationVelocity # navigation_dict.translationVelocity
    /\ view_state =
          <<Generator("trans", Direction("unit", <<-1, 0, 0>>), "lin",
                      KeyPressDelay * navigation_dict.translationVelocity)>>

\* The order in which a set that "a" and then "Left" were added to is
\* iterated.
C5_FreshOrder ==
    SetIter(SetAdd(SetAdd(EmptySet, "a", key_hash["a"]), "Left", key_hash["Left"]))

C6_ZeroDeltaRestoresPressState ==
    [][\A pos \in Positions :
        tkButtonMotion1(pos) /\ Unmixed("free") /\ pos = gesture.pos
        => view_state' = gesture.state /\ calls' = <<RedrawCall>>]_vars

\* C6 witness: a free drag sample at the press position has run after the
\* view had been dragged away from a press state other than the initial one.
C6_Witness ==
    /\ handler = "tkButtonMotion1"
    /\ calls = <<RedrawCall>>
    /\ Unmixed("free")
    /\ gesture.drags = "own"
    /\ view_state = gesture.state
    /\ view_state # initial_view_state
    /\ mouse_events = MaxMouseEvents

\* C7: in a free gesture with only plain drag samples, the view state after
\* a sample at q is update(press state, op(q - press position)), whatever
\* the earlier samples were.
C7_FreeDragRelativeToAnchor ==
    [][\A pos \in Positions :
        tkButtonMotion1(pos) /\ Unmixed("free") /\ pos # gesture.pos
        => /\ view_state' =
                 update_view_state(gesture.state,
                                   FreeDrag(pos[1] - gesture.pos[1],
                                            pos[2] - gesture.pos[2]))
           /\ UpdateCalls(calls') =
                 <<UpdateCall(gesture.state,
                              FreeDrag(pos[1] - gesture.pos[1],
                                       pos[2] - gesture.pos[2]))>>]_vars

\* C7 witness: a second plain drag sample of a free gesture has moved the
\* view by one translation from the press state.
C7_Witness ==
    /\ handler = "tkButtonMotion1"
    /\ Unmixed("free")
    /\ gesture.drags = "own"
    /\ Len(calls) = 2
    /\ gesture.state # initial_view_state
    /\ view_state = Append(gesture.state, calls[1].m[1])
    /\ mouse_events = MaxMouseEvents

\* C8: a drag handler changes the view state only while a gesture of its own
\* mode is in progress.
C8_ModesExclusive ==
    [][\A pos \in Positions :
        /\ tkButtonMotion1(pos) /\ ~InProgress("free") => view_state' = view_state
        /\ tkCtrlButtonMotion1(pos) /\ ~InProgress("rotate") => view_state' = view_state
        /\ tkAltButtonMotion1(pos) /\ ~InProgress("orbit") => view_state' = view_state]_vars

\* forward * accumulated rotation * inverse
OrbitSandwich == Mul(Mul(orbit_translation, orbit_rotation), orbit_inv_translation)

\* C9: an orbit press leaves the view state alone and builds a forward and
\* an inverse translation whose product around the identity rotation is the
\* identity; a release that follows with no drag sample in between leaves
\* the view state equal to the state at the press, which
\* update(press state, forward * identity * inverse) equals.
C9_OrbitRoundTrip ==
    [][/\ \A pos \in Positions, depth \in Depths :
            tkAltButton1(pos, depth)
            => /\ view_state' = view_state
               /\ orbit_rotation' = Identity
               /\ OrbitSandwich' = Identity
               /\ depth # 0 =>
                     /\ Len(orbit_translation') = 1
                     /\ Len(orbit_inv_translation') = 1
                     /\ orbit_translation'[1].axis = orbit_inv_translation'[1].axis
                     /\ orbit_translation'[1].n = depth
                     /\ orbit_inv_translation'[1].n = -depth
       /\ tkButtonRelease1 /\ gesture.mode = "orbit" /\ gesture.drags = "none"
            => /\ view_state' = gesture.state
               /\ update_view_state(view_state_when_pressed', OrbitSandwich')
                     = gesture.state]_vars

\* C9 witness: an orbit press at a pixel of depth other than 0 was released
\* with no drag sample in between, from a view other than the initial one.
C9_Witness ==
    /\ handler = "tkButtonRelease1"
    /\ gesture.mode = "orbit"
    /\ gesture.drags = "none"
    /\ ~gesture.down
    /\ orbit_translation # Identity
    /\ view_state # initial_view_state

\* C10: after a button release both the free/rotation anchor position and
\* the orbit previous-sample position are None.
C10_ReleaseClearsGestureState ==
    handler = "tkButtonRelease1"
    => mouse_pos_when_pressed = None /\ last_mouse_pos = None

\* C11: a key press or a key release of a key without a movement binding
\* changes neither the held set, nor the last-integrated times, nor the
\* release records, nor the view state, nor the pending ticks.
C11_UnboundKeyIsNoOp ==
    [][\A keysym \in OtherKeys :
        tkKeyPress(keysym) \/ tkKeyRelease(keysym)
        => UNCHANGED <<current_keys_pressed, last_time, time_key_release_received,
                       view_state, pending>>]_vars

\* The calls include a redraw request that comes after every call of update.
RedrawnAfterUpdate(cs) ==
    \E i \in DOMAIN cs :
        /\ cs[i] = RedrawCall
        /\ \A j \in DOMAIN cs :
              cs[j].f \in {"update_view_state", "update_view_state(state)"} => j < i

\* C12: an operation that changes the view state requests a redraw after
\* the change, before it returns.
C12_RedrawAfterEveryChange ==
    [][view_state' # view_state => RedrawnAfterUpdate(calls')]_vars

\* The pairs of keys the binding table documents as opposite.
C13_Pairs ==
    {<<"d", "a">>, <<"e", "c">>, <<"s", "w">>,
     <<"Right", "Left">>, <<"Down", "Up">>, <<"z", "x">>}

\* The coordinate axis of each pair, and the sign of each key on it.
C13_Axis ==
    [k \in key_movement_bindings |->
        CASE k \in {"d", "a", "Down", "Up"} -> <<1, 0, 0>>
          [] k \in {"e", "c", "Right", "Left"} -> <<0, 1, 0>>
          [] k \in {"s", "w", "z", "x"} -> <<0, 0, 1>>]

C13_Sign ==
    [k \in key_movement_bindings |->
        IF k \in {"d", "e", "s", "Right", "Down", "z"} THEN 1 ELSE -1]

\* The one generator of a matrix, or FALSE for the identity.
C13_Only(m) == IF Len(m) = 1 THEN m[1] ELSE FALSE

\* C13: the table binds twelve keys; a translation key returns the
\* translation along its signed axis by the translation amount alone, a
\* rotation key the rotation about its axis by the signed rotation amount
\* alone; the two keys of a pair return, for equal amounts, operators on the
\* same line with opposite signs.
C13_TwelveBindings ==
    /\ Cardinality(key_movement_bindings) = 12
    /\ Cardinality(TranslationKeys) = 6 /\ Cardinality(RotationKeys) = 6
    /\ LET k == binding_call.key
           rot == binding_call.rot_amount
           trans == binding_call.trans_amount
       IN /\ k \in TranslationKeys =>
                /\ binding_call.result =
                      IF trans = 0 THEN Identity
                      ELSE <<[kind |-> "trans",
                              axis |-> [scale |-> "unit",
                                        v |-> [i \in 1 .. 3 |-> C13_Sign[k] * C13_Axis[k][i]]],
                              unit |-> "lin", n |-> trans]>>
                /\ \A other \in Amounts :
                      KeyMovement(k, other, trans) = binding_call.result
          /\ k \in RotationKeys =>
                /\ binding_call.result =
                      IF rot = 0 THEN Identity
                      ELSE <<[kind |-> "rot",
                              axis |-> [scale |-> "unit", v |-> C13_Axis[k]],
                              unit |-> "lin", n |-> C13_Sign[k] * rot]>>
                /\ \A other \in Amounts :
                      KeyMovement(k, rot, other) = binding_call.result
          /\ \A pair \in C13_Pairs :
                k \in {pair[1], pair[2]} /\ binding_call.result # Identity =>
                   LET p == C13_Only(KeyMovement(pair[1], rot, trans))
                       q == C13_Only(KeyMovement(pair[2], rot, trans))
                   IN /\ p.kind = q.kind
                      /\ \/ /\ p.kind = "rot"
                            /\ p.axis = q.axis
                            /\ p.n = -q.n
                         \/ /\ p.kind = "trans"
                            /\ p.axis.v = [i \in 1 .. 3 |-> -q.axis.v[i]]
                            /\ p.n = q.n

\* C13 witness: 'Up' was called with a rotation amount and a translation
\* amount that differ, and returned the rotation about x by minus the
\* rotation amount.
C13_Witness ==
    /\ binding_call.key = "Up"
    /\ binding_call.rot_amount = MaxAmount
    /\ binding_call.trans_amount = -1
    /\ binding_call.result =
          <<[kind |-> "rot", axis |-> [scale |-> "unit", v |-> <<1, 0, 0>>],
             unit |-> "lin", n |-> -MaxAmount]>>

\* The rotation about the coordinate axis v by n units, or the identity.
C14_Rotation(v, n) ==
    IF n = 0 THEN << >>
    ELSE <<[kind |-> "rot", axis |-> [scale |-> "unit", v |-> v],
            unit |-> "lin", n |-> n]>>

\* Two matrices with the same axes in the same order and opposite amounts.
C14_Opposite(a, b) ==
    /\ Len(a) = Len(b)
    /\ \A i \in DOMAIN a :
          /\ a[i].kind = b[i].kind
          /\ a[i].axis = b[i].axis
          /\ a[i].n = -b[i].n

\* C14: an in-place rotation drag sample with delta (dx, dy) from the
\* previous sample passes to update the rotation about y by -dx K times the
\* rotation about x by -dy K, and the opposite delta gives the same axes
\* with opposite angles.
C14_RotationSignSymmetry ==
    [][\A pos \in Positions :
        tkCtrlButtonMotion1(pos) /\ mouse_pos_when_pressed # None
        => LET dx == pos[1] - mouse_pos_when_pressed[1]
               dy == pos[2] - mouse_pos_when_pressed[2]
               m == C14_Rotation(<<0, 1, 0>>, -dx * MouseFactor)
                       \o C14_Rotation(<<1, 0, 0>>, -dy * MouseFactor)
           IN /\ UpdateCalls(calls') = <<UpdateCall(view_state, m)>>
              /\ C14_Opposite(m, RotationDrag(-dx, -dy))]_vars

\* C14 witness: in an in-place rotation gesture a drag sample has undone,
\* by the opposite delta, the rotation of the sample before it.
C14_Witness ==
    /\ handler = "tkCtrlButtonMotion1"
    /\ Unmixed("rotate")
    /\ gesture.drags = "own"
    /\ Len(calls) = 2
    /\ calls[1].m # Identity
    /\ calls[1].state # gesture.state
    /\ view_state = gesture.state

\* C16: a press of a bound key that is not held adds it to the held set,
\* sets its last-integrated time to the time of the press and leaves it
\* without a release record; a press of a bound key that is held leaves the
\* held set and the last-integrated times alone and only removes the
\* release record of the key.
C16_KeyPress ==
    [][\A k \in MovementKeys :
        tkKeyPress(k)
        => /\ k \notin DOMAIN time_key_release_received'
           /\ \A other \in DOMAIN time_key_release_received \ {k} :
                 /\ other \in DOMAIN time_key_release_received'
                 /\ time_key_release_received'[other] = time_key_release_received[other]
           /\ IF k \notin Held
              THEN /\ Held' = Held \cup {k}
                   /\ last_time'[k] = now
                   /\ \A other \in DOMAIN last_time \ {k} :
                         last_time'[other] = last_time[other]
              ELSE /\ current_keys_pressed' = current_keys_pressed
                   /\ last_time' = last_time]_vars

\* C16 witness: "a", held and integrated up to an earlier time and with a
\* release on record, has been pressed again: it is still held, the record
\* is gone and its last-integrated time is still the earlier one.
C16_Witness ==
    /\ handler = "tkKeyPress"
    /\ calls = << >>
    /\ key_events = MaxKeyEvents
    /\ Held = {"a"}
    /\ DOMAIN time_key_release_received = {}
    /\ last_time["a"] < now
    /\ held_since["a"] < last_time["a"]

\* C17: a key release records the time of the release for the key and
\* changes neither the held set, nor the last-integrated times, nor the view
\* state, nor the pending ticks; a key leaves the held set only in a tick.
C17_KeyReleaseFrame ==
    [][\A k \in MovementKeys :
        /\ tkKeyRelease(k)
           => /\ UNCHANGED <<current_keys_pressed, last_time, view_state, pending>>
              /\ DOMAIN time_key_release_received' =
                    DOMAIN time_key_release_received \cup {k}
              /\ time_key_release_received'[k] = now
              /\ \A other \in DOMAIN time_key_release_received \ {k} :
                    time_key_release_received'[other] = time_key_release_received[other]
        /\ k \in Held /\ k \notin Held' => handler' = "do_movement"]_vars

\* C17 witness: "a", held and moved by a tick, has just been released: it
\* is still held, its release is on record and a tick is pending.
C17_Witness ==
    /\ handler = "tkKeyRelease"
    /\ Held = {"a"}
    /\ "a" \in DOMAIN time_key_release_received
    /\ time_key_release_received["a"] = now
    /\ view_state # initial_view_state
    /\ pending # << >>

\* C18: a tick removes a held key if and only if the key has a release
\* record more than the debounce window old; it adds no key; and a key whose
\* last event is a press is not removed, whatever releases came before.
C18_EvictionRule ==
    [][do_movement =>
        /\ Held' \subseteq Held
        /\ \A k \in Held :
              /\ k \notin Held' <=>
                    /\ k \in DOMAIN time_key_release_received
                    /\ now - time_key_release_received[k] > Debounce
              /\ last_key_event[k] = "press" => k \in Held']_vars

\* C18 witness: a tick has removed "a", released more than the debounce
\* window before, and kept "Left", whose last event is its press.
C18_Witness ==
    /\ handler = "do_movement"
    /\ Held = {"Left"}
    /\ last_key_event = [a |-> "release", Left |-> "press"]
    /\ now - time_key_release_received["a"] > Debounce
    /\ \E i \in DOMAIN current_keys_pressed : current_keys_pressed[i] = Dummy
    /\ Len(calls) = 3

\* The sequence q without its i-th element.
C19_Without(q, i) == SubSeq(q, 1, i - 1) \o SubSeq(q, i + 1, Len(q))

\* C19: a tick that finds no key held after the eviction leaves the view
\* state alone, calls neither update nor redraw and arms nothing; a tick
\* that finds a key held arms exactly one tick, refresh_delay later.
C19_EmptyTickStops ==
    [][do_movement =>
        IF Held' = {}
        THEN /\ view_state' = view_state
             /\ calls' = << >>
             /\ pending' = Tail(pending)
        ELSE /\ SelectSeq(calls', LAMBDA c : c.f = "after") = <<AfterCall(refresh_delay)>>
             /\ \E i \in DOMAIN pending' :
                   /\ pending'[i] = now + refresh_delay
                   /\ C19_Without(pending', i) = Tail(pending)]_vars

\* C19 witness: after the view was moved, a tick has found the held set
\* empty and has returned with no call made and nothing pending.
C19_Witness ==
    /\ handler = "do_movement"
    /\ Held = {}
    /\ calls = << >>
    /\ pending = << >>
    /\ view_state # initial_view_state
    /\ DOMAIN last_time # {}

\* The amount per millisecond by which a held key moves along its
\* generator: the rotation velocity for a rotation key, the translation
\* velocity for a translation key, with the sign its binding gives it.
C20_Rate(k) ==
    CASE k \in TranslationKeys -> navigation_dict.translationVelocity
      [] k \in {"Right", "Down", "z"} -> navigation_dict.rotationVelocity
      [] k \in {"Left", "Up", "x"} -> -navigation_dict.rotationVelocity

\* C20: at a tick every held key contributes the time since it was last
\* integrated times its velocity, its last-integrated time becomes the time
\* of the tick, and the amounts it has contributed since it joined the held
\* set add up to its velocity times the time since then.
C20_ElapsedTimeIntegration ==
    [][do_movement =>
        \A k \in Held' :
           /\ last_time'[k] = now
           /\ integrated'[k] - integrated[k] = C20_Rate(k) * (now - last_time[k])
           /\ integrated'[k] = C20_Rate(k) * (now - held_since'[k])]_vars

\* C20 witness: "a", held alone, has been integrated by more than one tick,
\* the last of them more than refresh_delay after its press, and its amounts
\* add up to the translation velocity times the time since the press.
C20_Witness ==
    /\ handler = "do_movement"
    /\ Held = {"a"}
    /\ Len(calls) = 3
    /\ now - held_since["a"] > refresh_delay
    /\ calls[1].m[1].n < integrated["a"]
    /\ integrated["a"] = navigation_dict.translationVelocity * (now - held_since["a"])
    /\ view_state = <<Generator("trans", Direction("unit", <<-1, 0, 0>>), "lin",
                                integrated["a"])>>

RECURSIVE C21_RightProduct(_, _)
\* op(k1) * op(k2) * ... * op(kn) for the keys k1 .. kn, each operator built
\* at time t.
C21_RightProduct(keys, t) ==
    IF keys = << >> THEN Identity
    ELSE Mul(C21_RightProduct(SubSeq(keys, 1, Len(keys) - 1), t),
             KeyStep(keys[Len(keys)], t))

\* C21 as claimed: with two keys visited in the order k1, k2 the operator
\* passed to update is op(k2) * op(k1).
C21_LeftMultiplied ==
    [][do_movement /\ Len(SetIter(current_keys_pressed')) = 2
       => LET keys == SetIter(current_keys_pressed')
          IN UpdateCalls(calls') =
                <<UpdateCall(view_state,
                             Mul(KeyStep(keys[2], now), KeyStep(keys[1], now)))>>]_vars

\* C21 as amended: the operator of each held key is multiplied into the
\* accumulator on the right, so that with the keys visited in the order
\* k1, k2 the operator passed to update is op(k1) * op(k2), and with one
\* key it is the operator of that key.
C21_RightMultiplied ==
    [][do_movement /\ SetIter(current_keys_pressed') # << >>
       => LET keys == SetIter(current_keys_pressed')
          IN /\ UpdateCalls(calls') =
                   <<UpdateCall(view_state, C21_RightProduct(keys, now))>>
             /\ view_state' = Mul(view_state, C21_RightProduct(keys, now))]_vars

\* C21 witness: a tick has visited "a" and then "Left", both with time to
\* integrate, and has passed to update the translation followed by the
\* rotation.
C21_Witness ==
    /\ handler = "do_movement"
    /\ SetIter(current_keys_pressed) = <<"a", "Left">>
    /\ Len(calls) = 3
    /\ Len(calls[1].m) = 2
    /\ calls[1].m[1].kind = "trans"
    /\ calls[1].m[2].kind = "rot"

\* C22: a tick that finds a key held after the eviction has evicted exactly
\* the keys whose release is older than the debounce, called update once,
\* with the view state and the operator accumulated over the keys left, put
\* the result in the view state, then requested one redraw, then armed one
\* next tick, refresh_delay from now; nothing else is called.
C22_TickStepOrder ==
    [][do_movement /\ Held' # {}
       => /\ Held' = Held \ Evicted(now)
          /\ Len(calls') = 3
          /\ calls'[1] =
                UpdateCall(view_state,
                           MovementLoop(Identity, SetIter(current_keys_pressed'), now))
          /\ view_state' = update_view_state(calls'[1].state, calls'[1].m)
          /\ calls'[2] = RedrawCall
          /\ calls'[3] = AfterCall(refresh_delay)
          /\ Len(pending') = Len(pending)
          /\ \E i \in DOMAIN pending' :
                /\ pending'[i] = now + refresh_delay
                /\ C19_Without(pending', i) = Tail(pending)]_vars

\* C22 witness: a tick with two keys held has called update once, then
\* redraw, then after.
C22_Witness ==
    /\ handler = "do_movement"
    /\ Cardinality(Held) = 2
    /\ Len(UpdateCalls(calls)) = 1
    /\ Len(calls) = 3
    /\ calls[2] = RedrawCall
    /\ now + refresh_delay \in {pending[i] : i \in DOMAIN pending}

\* The position of the last sample of the gesture in progress: the press or
\* the last drag sample since.
C23_PreviousSample == gesture.samples[Len(gesture.samples)]

\* C23: in an in-place rotation gesture every Ctrl-drag sample calls update
\* with the current view state and the rotation by its offset from the
\* previous sample of the gesture, puts the result in the view state and
\* records its own position as the one to measure from; a sample at the
\* position of the previous one leaves the view state as it is.
C23_RotationIncremental ==
    [][\A pos \in Positions :
        tkCtrlButtonMotion1(pos) /\ Unmixed("rotate")
        => LET m == RotationDrag(pos[1] - C23_PreviousSample[1],
                                 pos[2] - C23_PreviousSample[2])
           IN /\ calls' = <<UpdateCall(view_state, m), RedrawCall>>
              /\ view_state' = update_view_state(view_state, m)
              /\ mouse_pos_when_pressed' = pos
              /\ pos = C23_PreviousSample => view_state' = view_state]_vars

\* C23 witness: in an in-place rotation gesture a first drag sample has
\* rotated the view away from its state at the press, and a second one at
\* the same position, away from the press, has left it there.
C23_Witness ==
    /\ handler = "tkCtrlButtonMotion1"
    /\ Unmixed("rotate")
    /\ Len(gesture.samples) = 3
    /\ gesture.samples[2] = gesture.samples[3]
    /\ gesture.samples[2] # gesture.pos
    /\ view_state # gesture.state
    /\ calls = <<UpdateCall(view_state, Identity), RedrawCall>>

RECURSIVE C24_Accumulated(_)
\* The product, in the order of the samples, of the rotations of the drag
\* samples of a gesture whose press and samples were at the given positions.
C24_Accumulated(samples) ==
    IF Len(samples) < 2 THEN Identity
    ELSE LET n == Len(samples)
         IN Mul(C24_Accumulated(SubSeq(samples, 1, n - 1)),
                OrbitDrag(samples[n][1] - samples[n - 1][1],
                          samples[n][2] - samples[n - 1][2]))

\* C24: in an orbit gesture the forward and the inverse operator are the
\* ones built at its press, from the direction of the pixel pressed and one
\* depth, and after every orbit drag sample the view state is update(state
\* at the press, forward * accumulated rotation * inverse), the accumulated
\* rotation being the product of the rotations of the samples since the
\* press; update is called once with these arguments and the position of
\* the sample becomes the one to measure from.
C24_OrbitAnchorSemantics ==
    [][\A pos \in Positions :
        tkAltButtonMotion1(pos) /\ Unmixed("orbit")
        => LET dir == Unproject(gesture.pos[1], gesture.pos[2],
                                Viewport.width, Viewport.height)
               accumulated == C24_Accumulated(gesture'.samples)
               sandwich == Mul(Mul(orbit_translation', accumulated),
                               orbit_inv_translation')
           IN /\ \E depth \in Depths :
                    /\ orbit_translation' = OrbitTranslation(dir, depth)
                    /\ orbit_inv_translation' = OrbitInvTranslation(dir, depth)
              /\ orbit_rotation' = accumulated
              /\ view_state' = update_view_state(gesture.state, sandwich)
              /\ UpdateCalls(calls') = <<UpdateCall(gesture.state, sandwich)>>
              /\ last_mouse_pos' = pos]_vars

\* C24 witness: the second drag sample of an orbit gesture, pressed at a
\* pixel of depth other than 0, has set the view to the state at the press
\* moved by the sandwich of a rotation accumulated from two samples.
C24_Witness ==
    /\ handler = "tkAltButtonMotion1"
    /\ Unmixed("orbit")
    /\ Len(gesture.samples) = 3
    /\ gesture.samples[2] # gesture.samples[1]
    /\ gesture.samples[3] # gesture.samples[2]
    /\ orbit_translation # Identity
    /\ orbit_rotation # Identity
    /\ view_state = update_view_state(gesture.state, OrbitSandwich)
    /\ view_state # gesture.state

\* C25 as claimed: the rotation of each orbit drag sample is multiplied
\* into the accumulated rotation on the left, so that after the samples m1
\* and then m2 of a gesture the accumulated rotation is m2 * m1.
C25_AccumulatedOnLeft ==
    [][\A pos \in Positions :
        tkAltButtonMotion1(pos) /\ Unmixed("orbit")
        => LET m == OrbitDrag(pos[1] - last_mouse_pos[1], pos[2] - last_mouse_pos[2])
           IN /\ orbit_rotation' = Mul(m, orbit_rotation)
              /\ Len(gesture.samples) = 2 =>
                    orbit_rotation' =
                       Mul(m, OrbitDrag(gesture.samples[2][1] - gesture.samples[1][1],
                                        gesture.samples[2][2] - gesture.samples[1][2]))]_vars

\* C25 as amended: the rotation of each orbit drag sample is multiplied
\* into the accumulated rotation on the right, so that after the samples m1
\* and then m2 of a gesture the accumulated rotation is m1 * m2.
C25_AccumulatedOnRight ==
    [][\A pos \in Positions :
        tkAltButtonMotion1(pos) /\ Unmixed("orbit")
        => LET m == OrbitDrag(pos[1] - last_mouse_pos[1], pos[2] - last_mouse_pos[2])
           IN /\ orbit_rotation' = Mul(orbit_rotation, m)
              /\ Len(gesture.samples) = 2 =>
                    orbit_rotation' =
                       Mul(OrbitDrag(gesture.samples[2][1] - gesture.samples[1][1],
                                     gesture.samples[2][2] - gesture.samples[1][2]), m)]_vars

\* C25 witness: an orbit gesture pressed at (0, 0) has had a sample at
\* (1, 0) and then one at (0, 1), whose rotations do not commute, and the
\* accumulated rotation is the first times the second.
C25_Witness ==
    /\ handler = "tkAltButtonMotion1"
    /\ Unmixed("orbit")
    /\ gesture.samples = << <<0, 0>>, <<1, 0>>, <<0, 1>> >>
    /\ orbit_rotation = Mul(OrbitDrag(1, 0), OrbitDrag(-1, 1))
    /\ orbit_rotation # Mul(OrbitDrag(-1, 1), OrbitDrag(1, 0))

\* C26: fix_view_state calls update with the view state alone and puts the
\* result in the view state, reset_view_state puts the initial view state
\* there and calls nothing; both leave the held set, the two timestamp maps,
\* the anchors of the gestures, the accumulated orbit rotation and the
\* pending ticks as they are.
C26_FixAndResetFrame ==
    [][/\ fix_view_state
          => /\ calls' = <<FixCall(view_state)>>
             /\ view_state' = update_view_state(view_state, Identity)
             /\ UNCHANGED <<keyVars, mouseVars, pending>>
       /\ reset_view_state
          => /\ calls' = << >>
             /\ view_state' = initial_view_state
             /\ UNCHANGED <<keyVars, mouseVars, pending>>]_vars

\* C26 witness: reset_view_state has run on a view that keys and an orbit
\* drag had moved, with "a" held and released, a tick pending and an
\* accumulated orbit rotation, and all of these are still there.
C26_Witness ==
    /\ handler = "reset_view_state"
    /\ view_state = initial_view_state
    /\ view_state_when_pressed # initial_view_state
    /\ Held = {"a"}
    /\ "a" \in DOMAIN time_key_release_received
    /\ pending # << >>
    /\ last_mouse_pos # None
    /\ orbit_rotation # Identity
    /\ orbit_rotation # NoMatrix

C28_GiveUpAsDocumented ==
    search.attempts > 0 =>
        /\ search.solve_k < 100
        /\ search.solve_prec < 16 * DoublePrecision

\* The factors whose interval contains 0, among those of the last call of
\* _find_unique_good_factor.
C29_Good(frame) == {i \in DOMAIN frame.find_zeros : frame.find_zeros[i]}

\* C29: _find_unique_good_factor returns a factor only when exactly one
\* factor has an interval containing 0, and then returns that one; with
\* none or with two or more it raises _IsolateFactorError, and the search
\* then keeps k, adds one to extra_prec, recomputes the intervals and stays
\* in its loop.
C29_UniqueGoodFactor ==
    [][search'.attempts = search.attempts + 1
       => /\ search'.find_factor # 0 => C29_Good(search') = {search'.find_factor}
          /\ Cardinality(C29_Good(search')) = 1 =>
                search'.find_factor \in C29_Good(search')
          /\ Cardinality(C29_Good(search')) # 1 =>
                /\ search'.find_factor = 0
                /\ search'.outcome = "_IsolateFactorError"
                /\ search'.pc = "loop"
                /\ search'.result = ""
                /\ search'.k = search.k
                /\ search'.extra_prec = search.extra_prec + 1
                /\ search'.prec = 2 * search.prec]_vars

\* C29 witness: two factors had an interval containing 0, and the search
\* goes on with intervals of 106 bits.
C29_Witness ==
    /\ search.attempts = 1
    /\ search.find_zeros = <<TRUE, TRUE>>
    /\ search.find_factor = 0
    /\ search.pc = "loop"
    /\ search.extra_prec = 1
    /\ search.prec = 106

\* C30: the four entries start disabled; configure, with the dict the
\* callback returns as its actions, sets each of them to normal exactly
\* when the dict has a value that is true for its label, and to disabled
\* otherwise, so that an entry a configure had enabled is disabled by a
\* configure whose dict lacks its label.
C30_EditMenuConfigure ==
    /\ \A entry \in {"Cut", "Copy", "Paste", "Delete"} :
          menu.state[entry] = "disabled"
    /\ [][LET actions == menu'.actions
          IN configure(actions)
             => /\ DOMAIN menu'.state = {"Cut", "Copy", "Paste", "Delete"}
                /\ \A entry \in {"Cut", "Copy", "Paste", "Delete"} :
                      /\ menu'.state[entry] \in {"normal", "disabled"}
                      /\ menu'.state[entry] = "normal"
                            <=> (entry \in DOMAIN actions /\ actions[entry] = "function")
                      /\ menu.state[entry] = "normal" /\ entry \notin DOMAIN actions
                            => menu'.state[entry] = "disabled"]_vars

\* C30 witness: a configure has disabled Paste, which the one before had
\* enabled and whose label its dict lacks, has left Cut, whose value is
\* false, disabled and has enabled Copy.
C30_Witness ==
    /\ menu.previous["Paste"] = "normal"
    /\ "Paste" \notin DOMAIN menu.actions
    /\ menu.state["Paste"] = "disabled"
    /\ "Cut" \in DOMAIN menu.actions
    /\ menu.actions["Cut"] = "None"
    /\ menu.state["Cut"] = "disabled"
    /\ menu.state["Copy"] = "normal"
    /\ menu.previous["Copy"] = "disabled"

\* C31: whenever a key is in the held set, a do_movement callback is
\* pending.
C31_MotionNeverStalls == Held # {} => pending # << >>

\* C31 witness: a tick has moved the view for a held key and has left a
\* callback pending, refresh_delay from now.
C31_Witness ==
    /\ handler = "do_movement"
    /\ Held # {}
    /\ Len(calls) = 3
    /\ pending = <<now + refresh_delay>>

\* C32: a press of a key that is in the held set and has a release on
\* record leaves the held set, the last-integrated times, the timer queue
\* and the view state as they are, arms no tick and removes the record of
\* the release; the ticks that follow do not evict the key, and the amounts
\* integrated for it since it joined the held set add up, at every tick, to
\* its velocity times the time since it joined, as they do for a key that
\* took no release and press.
C32_KeyRepeatAbsorbed ==
    [][/\ \A k \in MovementKeys :
            tkKeyPress(k) /\ k \in Held /\ k \in DOMAIN time_key_release_received
            => /\ UNCHANGED <<current_keys_pressed, last_time, pending, view_state,
                              held_since, integrated>>
               /\ calls' = << >>
               /\ k \notin DOMAIN time_key_release_received'
               /\ repeats'[k] = repeats[k] + 1
       /\ do_movement
            => \A k \in Held :
                  repeats[k] > 0 /\ k \notin DOMAIN time_key_release_received
                  => /\ k \in Held'
                     /\ integrated'[k] = C20_Rate(k) * (now - held_since[k])
                     /\ held_since'[k] = held_since[k]]_vars

\* C32 witness: "a" was pressed, integrated by a tick, released and pressed
\* again, and a later tick has integrated it up to its time, counted from
\* the first press.
C32_Witness ==
    /\ handler = "do_movement"
    /\ key_events = 3
    /\ Held = {"a"}
    /\ repeats["a"] = 1
    /\ last_time["a"] = now
    /\ now - held_since["a"] > Debounce + KeyPressDelay
    /\ integrated["a"] = navigation_dict.translationVelocity * (now - held_since["a"])

\* C33: a key that was evicted and is pressed again joins the held set with
\* its last-integrated time set to the time of that press and nothing
\* integrated; the first tick that integrates it afterwards contributes its
\* velocity times the time since the new press, and the ticks between the
\* eviction and the new press, which find the held set empty, leave the view
\* state alone.
C33_IdleTimeNotIntegrated ==
    [][/\ \A k \in MovementKeys :
             tkKeyPress(k) /\ k \notin Held /\ k \in DOMAIN evicted_at =>
                /\ k \in Held'
                /\ last_time'[k] = now
                /\ held_since'[k] = now
                /\ integrated'[k] = 0
       /\ do_movement =>
             /\ \A k \in Held' :
                   /\ k \in DOMAIN evicted_at
                   /\ evicted_at[k] <= held_since[k]
                   /\ last_time[k] = held_since[k]
                   => /\ integrated[k] = 0
                      /\ integrated'[k] = C20_Rate(k) * (now - held_since[k])
                      /\ Held' = {k} /\ now > held_since[k] =>
                            /\ UpdateCalls(calls')[1].m[1].n =
                                  C20_Rate(k) * (now - held_since[k])
                            /\ view_state' =
                                  update_view_state(view_state,
                                                    UpdateCalls(calls')[1].m)
             /\ Held' = {} => view_state' = view_state /\ calls' = << >>]_vars

\* C33 witness: "a" was evicted at a tick well after its release, pressed
\* again later still, and the tick that follows the new press has integrated
\* the time since that press, which is shorter than the time since the
\* eviction.
C33_Witness ==
    /\ handler = "do_movement"
    /\ Held = {"a"}
    /\ "a" \in DOMAIN evicted_at
    /\ evicted_at["a"] < held_since["a"]
    /\ held_since["a"] < now
    /\ last_time["a"] = now
    /\ Len(calls) = 3
    /\ integrated["a"] = navigation_dict.translationVelocity * (now - held_since["a"])
    /\ integrated["a"] < navigation_dict.translationVelocity * (now - evicted_at["a"])

\* C34: a plain drag sample and an Option-drag sample that find their anchor
\* set assign a view state computed from the view state captured at the last
\* button press and from positions and orbit operators alone, whatever ticks,
\* reset_view_state, fix_view_state or Ctrl-drag samples assigned to the view
\* state since that press: what they assigned is not in the result.
C34_AnchorOverwrites ==
    [][\A pos \in Positions :
          /\ tkButtonMotion1(pos) /\ mouse_pos_when_pressed # None =>
                /\ view_state' =
                      IF pos = mouse_pos_when_pressed THEN gesture.state
                      ELSE update_view_state(
                               gesture.state,
                               FreeDrag(pos[1] - mouse_pos_when_pressed[1],
                                        pos[2] - mouse_pos_when_pressed[2]))
                /\ UpdateCalls(calls') # << >> =>
                      UpdateCalls(calls')[1].state = gesture.state
          /\ tkAltButtonMotion1(pos) /\ last_mouse_pos # None =>
                /\ view_state' =
                      update_view_state(
                          gesture.state,
                          Mul(Mul(orbit_translation,
                                  OrbitAccumulate(
                                      orbit_rotation,
                                      OrbitDrag(pos[1] - last_mouse_pos[1],
                                                pos[2] - last_mouse_pos[2]))),
                              orbit_inv_translation))
                /\ UpdateCalls(calls')[1].state = gesture.state]_vars

\* C34 witness: since the press of a free gesture a tick has integrated "a"
\* and a Ctrl-drag sample has rotated the view, nothing has reset it, and
\* then a plain drag sample at the position of that sample has put the view
\* state captured at the press back.
C34_Witness ==
    /\ handler = "tkButtonMotion1"
    /\ gesture.down
    /\ gesture.mode = "free"
    /\ gesture.between = {"do_movement", "tkCtrlButtonMotion1"}
    /\ Held = {"a"}
    /\ integrated["a"] > 0
    /\ Len(gesture.samples) = 3
    /\ gesture.samples[2] # gesture.pos
    /\ view_state = gesture.state

\* C35: in every state each key of the held set has a movement binding and an
\* entry in the map of last-integrated times, so the loop of a tick finds
\* both for every key it visits.
C35_HeldKeysBoundAndTimed ==
    /\ Held \subseteq key_movement_bindings
    /\ Held \subseteq DOMAIN last_time

\* C35 witness: keys without a binding were pressed and released and "a" was
\* pressed; a tick has integrated "a", the only held key, and its
\* last-integrated time is the time of the tick.
C35_Witness ==
    /\ handler = "do_movement"
    /\ Len(calls) = 3
    /\ Held = {"a"}
    /\ last_time["a"] = now
    /\ "q" \in DOMAIN last_key_event
    /\ last_key_event["q"] = "press"
    /\ "q" \in DOMAIN time_key_release_received

====
